---- MODULE Spec2Model ----
(***************************************************************************)
(* Backtest execution engines of generative-ai-backtesting.                *)
(*                                                                         *)
(*   core/simple_backtest_engine.py  Entry, Position, BacktestEngine       *)
(*   core/backtest_engine.py         legacy BacktestEngine                 *)
(*   core/position_manager.py        PositionManager                       *)
(*   models/trades/crypto_trade.py   CryptoTrade                           *)
(*   core/backtest_runner.py         BacktestRunner                        *)
(*   optimization/optimizer.py       ParameterOptimizer                    *)
(*   strategies/examples/*.py        the example strategies                *)
(*                                                                         *)
(* Python floats are modelled as exact rationals [n |-> num, d |-> den]    *)
(* in lowest terms with d > 0: the arithmetic of the engines is kept, the  *)
(* IEEE-754 representation error is not.                                   *)
(***************************************************************************)
EXTENDS Integers, Sequences, FiniteSets, TLC

VARIABLES
    engine,                \* which engine class was constructed: "simple" | "legacy" | "slippage"
    tick_size,             \* BacktestEngine.tick_size
    slippage_fixed,        \* BacktestEngine.slippage_fixed
    slippage_pct,          \* BacktestEngine.slippage_pct
    fee_fixed,             \* BacktestEngine.fee_fixed
    fee_rate,              \* BacktestEngine.fee_rate
    initial_capital,       \* BacktestEngine.initial_capital
    capital,               \* BacktestEngine.capital / legacy current_capital
    current_position,      \* simple engine: None or a Position
    positions,             \* legacy PositionManager.positions: symbol -> None or CryptoTrade
    completed_trades,      \* ledger: list of dict (simple) / list of CryptoTrade (legacy)
    signal,                \* loop variable of run(): the signal processed last
    idx,                   \* number of signals run() has consumed
    raised,                \* "none", or the exception that left run()
    returned,              \* None, or the result of a direct call of _apply_slippage_to_price
    capital_before_trade,  \* history: capital just before the open position's first entry
    opened,                \* history: symbol -> number of Position/CryptoTrade objects opened
    optimizer,             \* None, or the ParameterOptimizer and the position of its optimize() loop
    strategy               \* None, or the strategy object and the locals of its generate_simple_signals()

costVars == <<tick_size, slippage_fixed, slippage_pct, fee_fixed, fee_rate>>
vars == <<engine, tick_size, slippage_fixed, slippage_pct, fee_fixed, fee_rate,
          initial_capital, capital, current_position, positions,
          completed_trades, signal, idx, raised, returned,
          capital_before_trade, opened, optimizer, strategy>>

----------------------------------------------------------------------------
(* Bounds of the model *)

\* signals one run of the simple engine consumes
MaxSignals == 4

\* signals one run of the legacy engine consumes
MaxLegacySignals == 3

----------------------------------------------------------------------------
(* Exact rational arithmetic standing for float arithmetic *)

Abs(i) == IF i < 0 THEN -i ELSE i

RECURSIVE GCD(_, _)
GCD(a, b) == IF b = 0 THEN a ELSE GCD(b, a % b)

LCM(a, b) == (a \div GCD(a, b)) * b

Rat(num, den) ==
    LET s == IF den < 0 THEN -1 ELSE 1
        g == GCD(Abs(num), Abs(den))
    IN  [n |-> (s * num) \div g, d |-> (s * den) \div g]

RInt(i) == [n |-> i, d |-> 1]
RZero == RInt(0)
RNeg(a) == [n |-> -a.n, d |-> a.d]
RAdd(a, b) ==
    LET l == LCM(a.d, b.d)
    IN  Rat(a.n * (l \div a.d) + b.n * (l \div b.d), l)
RSub(a, b) == RAdd(a, RNeg(b))
RMul(a, b) ==
    LET g1 == GCD(Abs(a.n), b.d)
        g2 == GCD(Abs(b.n), a.d)
    IN  Rat((a.n \div g1) * (b.n \div g2), (a.d \div g2) * (b.d \div g1))
RInv(a) == IF a.n > 0 THEN [n |-> a.d, d |-> a.n] ELSE [n |-> -a.d, d |-> -a.n]
RDiv(a, b) == RMul(a, RInv(b))
RAbs(a) == [n |-> Abs(a.n), d |-> a.d]
RLe(a, b) == RSub(b, a).n >= 0
RLt(a, b) == RSub(b, a).n > 0

\* faulty variant: truncation toward minus infinity instead of rounding
round_down(x) == x.n \div x.d

\* Python 3 round(x) on a float: nearest integer, ties to the even one.
round(x) ==
    LET q == x.n \div x.d
        r == x.n % x.d
    IN  IF 2 * r < x.d THEN q
        ELSE IF 2 * r > x.d THEN q + 1
        ELSE IF q % 2 = 0 THEN q ELSE q + 1

RECURSIVE RSum(_)
RSum(s) == IF s = <<>> THEN RZero ELSE RAdd(s[1], RSum(Tail(s)))

----------------------------------------------------------------------------
(* models/enums.py, models/simple_signals.py *)

BUY == "BUY"
SELL == "SELL"
SignalType == {BUY, SELL}

None == [none |-> TRUE]

\* TradingSignal.__post_init__: price > 0 and 0 < position_size_pct <= 1
ValidSignal(s) ==
    /\ s.price.n > 0
    /\ s.position_size_pct.n > 0
    /\ RLe(s.position_size_pct, RInt(1))

TradingSignal(ts, type, sym, price, pct) ==
    [timestamp |-> ts, signal_type |-> type, symbol |-> sym,
     price |-> price, position_size_pct |-> pct]

----------------------------------------------------------------------------
(* Inputs: market configurations, capital and signal fields *)

Symbols == {"BTC", "ETH"}

\* reference prices on the tick grid of both configurations
Prices == {RInt(4), RInt(6)}

Fractions == {Rat(1, 2), RInt(1)}

\* percentage regime (crypto style dict: no 'slippage_ticks' key)
PctConfig ==
    [regime |-> "pct", tick_size |-> Rat(1, 4),
     exchange_fee |-> Rat(1, 8), slippage |-> Rat(1, 8), slippage_ticks |-> 0]

\* fixed regime (futures style dict: has 'slippage_ticks')
FixedConfig ==
    [regime |-> "fixed", tick_size |-> Rat(1, 4),
     exchange_fee |-> Rat(3, 2), slippage |-> RZero, slippage_ticks |-> 1]

MarketConfigs == {PctConfig, FixedConfig}

InitialCapitals == {RInt(100)}

----------------------------------------------------------------------------
(* core/simple_backtest_engine.py: Position *)

\* faulty variant: the Entry does not record the fee it paid
Entry_without_fee(ts, price, size_usdt, fee, slippage_cost) ==
    [timestamp |-> ts, price |-> price, size_usdt |-> size_usdt,
     fee |-> RZero, slippage_cost |-> slippage_cost]

Entry(ts, price, size_usdt, fee, slippage_cost) ==
    [timestamp |-> ts, price |-> price, size_usdt |-> size_usdt,
     fee |-> fee, slippage_cost |-> slippage_cost]

\* faulty variant: the position does not keep the time it was opened at
Position_without_time(sym, entry_time) ==
    [symbol |-> sym, entry_time |-> 0, entries |-> <<>>]

Position(sym, entry_time) ==
    [symbol |-> sym, entry_time |-> entry_time, entries |-> <<>>]

\* faulty variant: the new Entry replaces the list instead of being appended
add_entry_replacing(pos, ts, price, size_usdt, fee, slippage_cost) ==
    [pos EXCEPT !.entries = <<Entry(ts, price, size_usdt, fee, slippage_cost)>>]

\* Position.add_entry
add_entry(pos, ts, price, size_usdt, fee, slippage_cost) ==
    [pos EXCEPT !.entries = Append(@, Entry(ts, price, size_usdt, fee, slippage_cost))]

total_cost(pos) ==
    RSum([i \in 1..Len(pos.entries) |-> pos.entries[i].size_usdt])

total_fees_on_entries(pos) ==
    RSum([i \in 1..Len(pos.entries) |-> pos.entries[i].fee])

total_slippage_on_entries(pos) ==
    RSum([i \in 1..Len(pos.entries) |-> pos.entries[i].slippage_cost])

total_crypto(pos) ==
    RSum([i \in 1..Len(pos.entries) |->
            RDiv(pos.entries[i].size_usdt, pos.entries[i].price)])

\* faulty variant: the executed prices weighted by the notionals,
\* sum(size_usdt * price) / sum(size_usdt)
average_entry_price_by_notional(pos) ==
    LET tc == total_cost(pos)
    IN  IF tc.n = 0 THEN RZero
        ELSE RDiv(RSum([i \in 1..Len(pos.entries) |->
                          RMul(pos.entries[i].size_usdt, pos.entries[i].price)]),
                  tc)

average_entry_price(pos) ==
    LET tc == total_crypto(pos)
    IN  IF tc.n = 0 THEN RZero ELSE RDiv(total_cost(pos), tc)

----------------------------------------------------------------------------
(* core/simple_backtest_engine.py: BacktestEngine *)

\* BacktestEngine.__init__
\* faulty variant: the fixed regime also keeps exchange_fee as fee_rate
EngineInit_both_fees(cap, cfg) ==
    /\ initial_capital = cap
    /\ capital = cap
    /\ tick_size = cfg.tick_size
    /\ IF cfg.regime = "fixed"
       THEN /\ slippage_fixed = RMul(RInt(cfg.slippage_ticks), cfg.tick_size)
            /\ slippage_pct = RZero
            /\ fee_fixed = cfg.exchange_fee
            /\ fee_rate = cfg.exchange_fee
       ELSE /\ slippage_fixed = RZero
            /\ slippage_pct = cfg.slippage
            /\ fee_fixed = RZero
            /\ fee_rate = cfg.exchange_fee
    /\ current_position = None
    /\ completed_trades = <<>>

EngineInit(cap, cfg) ==
    /\ initial_capital = cap
    /\ capital = cap
    /\ tick_size = cfg.tick_size
    /\ IF cfg.regime = "fixed"
       THEN /\ slippage_fixed = RMul(RInt(cfg.slippage_ticks), cfg.tick_size)
            /\ slippage_pct = RZero
            /\ fee_fixed = cfg.exchange_fee
            /\ fee_rate = RZero
       ELSE /\ slippage_fixed = RZero
            /\ slippage_pct = cfg.slippage
            /\ fee_fixed = RZero
            /\ fee_rate = cfg.exchange_fee
    /\ current_position = None
    /\ completed_trades = <<>>

\* faulty variant: the price is rounded to a whole number and then scaled:
\* round(real_price) * tick_size
apply_slippage_no_divide(price, is_buy) ==
    LET real_price ==
            IF slippage_fixed.n > 0
            THEN IF is_buy THEN RAdd(price, slippage_fixed)
                           ELSE RSub(price, slippage_fixed)
            ELSE IF is_buy
                 THEN RMul(price, RAdd(RInt(1), slippage_pct))
                 ELSE RMul(price, RSub(RInt(1), slippage_pct))
    IN  RMul(RInt(round(real_price)), tick_size)

\* BacktestEngine._apply_slippage_to_price
apply_slippage_to_price(price, is_buy) ==
    LET real_price ==
            IF slippage_fixed.n > 0
            THEN IF is_buy THEN RAdd(price, slippage_fixed)
                           ELSE RSub(price, slippage_fixed)
            ELSE IF is_buy
                 THEN RMul(price, RAdd(RInt(1), slippage_pct))
                 ELSE RMul(price, RSub(RInt(1), slippage_pct))
    IN  RMul(RInt(round(RDiv(real_price, tick_size))), tick_size)

\* the amount of one fee: fee_fixed if fee_fixed > 0 else amount * fee_rate
\* faulty variant: the fee is always amount * fee_rate, the flat fee is ignored
fee_on_rate_only(amount) == RMul(amount, fee_rate)

fee_on(amount) == IF fee_fixed.n > 0 THEN fee_fixed ELSE RMul(amount, fee_rate)

\* faulty variant: the notional is a fraction of the initial capital
entry_size_of_initial(sig) == RMul(initial_capital, sig.position_size_pct)

\* _handle_buy step 1: the notional of an entry
entry_size_usdt_of(sig) == RMul(capital, sig.position_size_pct)

\* faulty variant: only a notional of exactly zero is skipped
no_capital_zero_only(entry_size_usdt) == entry_size_usdt.n = 0

\* _handle_buy step 1: "if entry_size_usdt <= 0: return"
no_capital(entry_size_usdt) == entry_size_usdt.n <= 0

\* faulty variant: every BUY creates a new Position
creates_position_always(sig) == TRUE

\* _handle_buy step 4: "if self.current_position is None"
creates_position(sig) == current_position = None

\* faulty variant: the entry fee is not taken from the capital
buy_debit_without_fee(entry_size_usdt, entry_fee) == entry_size_usdt

\* _handle_buy step 6: the amount taken from capital
buy_debit(entry_size_usdt, entry_fee) == RAdd(entry_size_usdt, entry_fee)

\* BacktestEngine._handle_buy
handle_buy(sig) ==
    LET entry_size_usdt == entry_size_usdt_of(sig)
        real_price == apply_slippage_to_price(sig.price, TRUE)
    IN  IF no_capital(entry_size_usdt)
        THEN UNCHANGED <<capital, current_position, completed_trades,
                         raised, capital_before_trade, opened>>
        ELSE IF real_price.n = 0
        THEN \* entry_size_usdt / real_price divides by zero
             /\ raised' = "ZeroDivisionError"
             /\ UNCHANGED <<capital, current_position, completed_trades,
                            capital_before_trade, opened>>
        ELSE
        LET entry_fee == fee_on(entry_size_usdt)
            entry_slippage_cost ==
                RMul(RAbs(RSub(real_price, sig.price)),
                     RDiv(entry_size_usdt, real_price))
            pos == IF creates_position(sig)
                   THEN Position(sig.symbol, sig.timestamp)
                   ELSE current_position
        IN  /\ current_position' =
                   add_entry(pos, sig.timestamp, real_price,
                             entry_size_usdt, entry_fee, entry_slippage_cost)
            /\ capital' = RSub(capital, buy_debit(entry_size_usdt, entry_fee))
            /\ capital_before_trade' =
                   IF creates_position(sig) THEN capital
                   ELSE capital_before_trade
            /\ opened' =
                   IF creates_position(sig)
                   THEN [opened EXCEPT ![sig.symbol] = @ + 1]
                   ELSE opened
            /\ UNCHANGED <<completed_trades, raised>>

\* faulty variant: the SELL sells the fraction its signal carries
sell_quantity_fraction(pos, sig) == RMul(total_crypto(pos), sig.position_size_pct)

\* _handle_sell step 2: the quantity sold
sell_quantity(pos, sig) == total_crypto(pos)

\* _handle_sell step 5: net_pnl = gross_pnl - exit_fee
net_pnl_of(gross_pnl, exit_fee) == RSub(gross_pnl, exit_fee)

\* faulty variant: the exit fee is not taken from the proceeds
sell_credit_gross(exit_value_usdt, exit_fee) == exit_value_usdt

\* _handle_sell step 6: the amount returned to capital
\* faulty variant: the exit fee is added to the proceeds instead of taken off
sell_credit_fee_added(exit_value_usdt, exit_fee) == RAdd(exit_value_usdt, exit_fee)

sell_credit(exit_value_usdt, exit_fee) == RSub(exit_value_usdt, exit_fee)

\* faulty variant: the new record is put in front of the ledger
record_trade_at_front(ledger, trade) == <<trade>> \o ledger

\* _handle_sell: self.completed_trades.append(trade)
record_trade(ledger, trade) == Append(ledger, trade)

\* BacktestEngine._handle_sell
handle_sell(sig) ==
    IF current_position = None
    THEN UNCHANGED <<capital, current_position, completed_trades,
                     raised, capital_before_trade, opened>>
    ELSE
    LET real_price == apply_slippage_to_price(sig.price, FALSE)
        crypto == sell_quantity(current_position, sig)
        exit_value_usdt == RMul(crypto, real_price)
        exit_fee == fee_on(exit_value_usdt)
        exit_slippage_cost == RMul(RAbs(RSub(sig.price, real_price)), crypto)
        cost == total_cost(current_position)
        total_entry_fees == total_fees_on_entries(current_position)
        total_entry_slippage == total_slippage_on_entries(current_position)
        gross_pnl == RSub(exit_value_usdt, cost)
        net_pnl == net_pnl_of(gross_pnl, exit_fee)
        new_capital == RAdd(capital, sell_credit(exit_value_usdt, exit_fee))
    IN  /\ capital' = new_capital
        /\ completed_trades' = record_trade(completed_trades,
              [symbol |-> current_position.symbol,
               entry_time |-> current_position.entry_time,
               exit_time |-> sig.timestamp,
               num_entries |-> Len(current_position.entries),
               avg_entry_price |-> average_entry_price(current_position),
               exit_price |-> real_price,
               total_cost |-> cost,
               exit_value |-> exit_value_usdt,
               total_entry_fees |-> total_entry_fees,
               exit_fee |-> exit_fee,
               total_fees |-> RAdd(total_entry_fees, exit_fee),
               entry_slippage |-> total_entry_slippage,
               exit_slippage |-> exit_slippage_cost,
               total_slippage |-> RAdd(total_entry_slippage, exit_slippage_cost),
               gross_pnl |-> gross_pnl,
               net_pnl |-> net_pnl,
               capital_after |-> new_capital,
               pnl_pct |-> IF cost.n > 0
                           THEN RMul(RDiv(net_pnl, cost), RInt(100))
                           ELSE RZero])
        /\ current_position' = None
        /\ UNCHANGED <<raised, capital_before_trade, opened>>

\* BacktestEngine.run, one iteration of the loop on a BUY signal
RunBuyOn(prices) ==
    /\ engine = "simple"
    /\ raised = "none"
    /\ idx < MaxSignals
    /\ \E sym \in Symbols, price \in prices, pct \in Fractions :
          LET sig == TradingSignal(idx + 1, BUY, sym, price, pct)
          IN  /\ ValidSignal(sig)
              /\ signal' = sig
              /\ idx' = idx + 1
              /\ handle_buy(sig)
    /\ UNCHANGED <<optimizer, strategy>>
    /\ UNCHANGED <<engine, costVars, initial_capital, positions, returned>>

RunBuy == RunBuyOn(Prices)

\* BacktestEngine.run, one iteration of the loop on a SELL signal
RunSellOn(prices) ==
    /\ engine = "simple"
    /\ raised = "none"
    /\ idx < MaxSignals
    /\ \E sym \in Symbols, price \in prices, pct \in Fractions :
          LET sig == TradingSignal(idx + 1, SELL, sym, price, pct)
          IN  /\ ValidSignal(sig)
              /\ signal' = sig
              /\ idx' = idx + 1
              /\ handle_sell(sig)
    /\ UNCHANGED <<optimizer, strategy>>
    /\ UNCHANGED <<engine, costVars, initial_capital, positions, returned>>

RunSell == RunSellOn(Prices)

----------------------------------------------------------------------------
(* config/market_configs/crypto_config.py *)

Exchanges == {"Binance", "Kucoin", "Kraken"}

CRYPTO_CONFIG ==
    [Binance |->
        [BTC |-> [tick_size |-> Rat(1, 100), exchange_fee |-> Rat(1, 1000),
                  slippage |-> Rat(2, 10000), price_precision |-> 2],
         ETH |-> [tick_size |-> Rat(1, 100), exchange_fee |-> Rat(1, 1000),
                  slippage |-> Rat(2, 10000), price_precision |-> 2]],
     Kucoin |->
        [BTC |-> [tick_size |-> Rat(1, 10000), exchange_fee |-> Rat(8, 10000),
                  slippage |-> Rat(3, 10000), price_precision |-> 4],
         ETH |-> [tick_size |-> Rat(1, 10000), exchange_fee |-> Rat(8, 10000),
                  slippage |-> Rat(3, 10000), price_precision |-> 4]]]

\* the condition under which get_crypto_config returns instead of raising
has_crypto_config(exchange, symbol) ==
    /\ exchange \in DOMAIN CRYPTO_CONFIG
    /\ symbol \in DOMAIN CRYPTO_CONFIG[exchange]

get_crypto_config(exchange, symbol) == CRYPTO_CONFIG[exchange][symbol]

----------------------------------------------------------------------------
(* models/signals.py: StrategySignal, the fields the legacy engine reads *)

Amounts == {RInt(100)}

\* (fee, slippage_cost) carried by a signal
SignalCosts == {<<RZero, RZero>>, <<Rat(1, 10), Rat(1, 50)>>}

StrategySignal(ts, type, sym, exchange, usdt_amount, price, fee, slippage_cost) ==
    [timestamp |-> ts, signal_type |-> type, symbol |-> sym,
     exchange |-> exchange, usdt_amount |-> usdt_amount, price |-> price,
     fee |-> fee, slippage_cost |-> slippage_cost, order_type |-> "MARKET"]

----------------------------------------------------------------------------
(* models/trades/crypto_trade.py: CryptoTrade *)

RECURSIVE Pow10(_)
Pow10(k) == IF k = 0 THEN 1 ELSE 10 * Pow10(k - 1)

\* CryptoTrade._round_price: round(price, price_precision)
round_price(trade, price) ==
    Rat(round(RMul(price, RInt(Pow10(trade.price_precision)))),
        Pow10(trade.price_precision))

TradeAction(ts, type, volume, price, order_type) ==
    [timestamp |-> ts, signal_type |-> type, volume |-> volume,
     price |-> price, order_type |-> order_type]

\* CryptoTrade.__init__, once get_crypto_config has returned config
CryptoTrade(sym, entry_time, exchange, apply_fees, apply_slippage) ==
    LET config == get_crypto_config(exchange, sym)
    IN  [symbol |-> sym, entry_time |-> entry_time, exchange |-> exchange,
         tick_size |-> config.tick_size, exchange_fee |-> config.exchange_fee,
         slippage |-> config.slippage, price_precision |-> config.price_precision,
         apply_fees |-> apply_fees, apply_slippage |-> apply_slippage,
         total_fees |-> RZero, total_slippage_cost |-> RZero,
         gross_profit_loss |-> RZero, net_profit_loss |-> RZero,
         fees |-> RZero, slippage_cost |-> RZero,
         entries |-> <<>>, exits |-> <<>>]

\* the accumulated totals after one more fill of `volume` at reference `price`
trade_costs(trade, volume, price) ==
    LET usdt_value == RMul(volume, price)
    IN  [trade EXCEPT
            !.total_slippage_cost =
                IF trade.apply_slippage
                THEN RAdd(@, RMul(usdt_value, trade.slippage)) ELSE @,
            !.total_fees =
                RAdd(@, IF trade.apply_fees
                        THEN RMul(usdt_value, trade.exchange_fee) ELSE RZero)]

\* CryptoTrade.add_entry
trade_add_entry(trade, ts, type, volume, price, order_type) ==
    LET real_price ==
            IF trade.apply_slippage
            THEN round_price(trade, RMul(price, RAdd(RInt(1), trade.slippage)))
            ELSE price
    IN  [trade_costs(trade, volume, price) EXCEPT
            !.entries = Append(@, TradeAction(ts, type, volume, real_price, order_type))]

\* faulty variant: the exit is stamped with the time the trade was opened at
trade_add_exit_at_entry_time(trade, ts, type, volume, price, order_type) ==
    LET real_price ==
            IF trade.apply_slippage
            THEN round_price(trade, RMul(price, RSub(RInt(1), trade.slippage)))
            ELSE price
    IN  [trade_costs(trade, volume, price) EXCEPT
            !.exits = Append(@, TradeAction(trade.entry_time, type, volume,
                                            real_price, order_type))]

\* CryptoTrade.add_exit
trade_add_exit(trade, ts, type, volume, price, order_type) ==
    LET real_price ==
            IF trade.apply_slippage
            THEN round_price(trade, RMul(price, RSub(RInt(1), trade.slippage)))
            ELSE price
    IN  [trade_costs(trade, volume, price) EXCEPT
            !.exits = Append(@, TradeAction(ts, type, volume, real_price, order_type))]

\* faulty variant: the slippage cost is left out of the net result
calculate_pnl_without_slippage(trade) ==
    IF trade.entries = <<>> \/ trade.exits = <<>> THEN trade
    ELSE
    LET total_entry_value ==
            RSum([i \in 1..Len(trade.entries) |->
                    RMul(trade.entries[i].volume, trade.entries[i].price)])
        total_exit_value ==
            RSum([i \in 1..Len(trade.exits) |->
                    RMul(trade.exits[i].volume, trade.exits[i].price)])
        gross == RSub(total_exit_value, total_entry_value)
    IN  [trade EXCEPT
            !.gross_profit_loss = gross,
            !.fees = trade.total_fees,
            !.slippage_cost = trade.total_slippage_cost,
            !.net_profit_loss = RSub(gross, trade.total_fees)]

\* CryptoTrade.calculate_pnl
calculate_pnl(trade) ==
    IF trade.entries = <<>> \/ trade.exits = <<>> THEN trade
    ELSE
    LET total_entry_value ==
            RSum([i \in 1..Len(trade.entries) |->
                    RMul(trade.entries[i].volume, trade.entries[i].price)])
        total_exit_value ==
            RSum([i \in 1..Len(trade.exits) |->
                    RMul(trade.exits[i].volume, trade.exits[i].price)])
        gross == RSub(total_exit_value, total_entry_value)
    IN  [trade EXCEPT
            !.gross_profit_loss = gross,
            !.fees = trade.total_fees,
            !.slippage_cost = trade.total_slippage_cost,
            !.net_profit_loss =
                RSub(RSub(gross, trade.total_fees), trade.total_slippage_cost)]

----------------------------------------------------------------------------
(* core/position_manager.py: PositionManager *)

has_position(symbol) == positions[symbol] # None

get_position(symbol) == positions[symbol]

\* PositionManager.open_position
open_position(symbol, trade) ==
    IF has_position(symbol)
    THEN /\ raised' = "ValueError"
         /\ UNCHANGED <<positions, opened>>
    ELSE /\ positions' = [positions EXCEPT ![symbol] = trade]
         /\ opened' = [opened EXCEPT ![symbol] = @ + 1]
         /\ UNCHANGED raised

----------------------------------------------------------------------------
(* core/backtest_engine.py: the legacy BacktestEngine *)

\* BacktestEngine._open_long_position
open_long_position(sig) ==
    IF ~has_crypto_config(sig.exchange, sig.symbol)
    THEN \* CryptoTrade.__init__ -> get_crypto_config raises
         /\ raised' = "ValueError"
         /\ UNCHANGED <<positions, opened, capital, completed_trades>>
    ELSE
    LET trade == CryptoTrade(sig.symbol, sig.timestamp, sig.exchange,
                             sig.fee.n > 0, sig.slippage_cost.n > 0)
        volume == RDiv(sig.usdt_amount, sig.price)
    IN  /\ open_position(sig.symbol,
              trade_add_entry(trade, sig.timestamp, sig.signal_type,
                              volume, sig.price, sig.order_type))
        /\ UNCHANGED <<capital, completed_trades>>

\* BacktestEngine._add_entry_to_position
add_entry_to_position(sig) ==
    LET trade == get_position(sig.symbol)
        volume == RDiv(sig.usdt_amount, sig.price)
    IN  /\ positions' = [positions EXCEPT ![sig.symbol] =
              trade_add_entry(trade, sig.timestamp, sig.signal_type,
                              volume, sig.price, sig.order_type)]
        /\ UNCHANGED <<capital, completed_trades, raised, opened>>

\* BacktestEngine._close_position (with PositionManager.close_position)
close_position(sig) ==
    IF ~has_position(sig.symbol)
    THEN /\ raised' = "ValueError"
         /\ UNCHANGED <<positions, opened, capital, completed_trades>>
    ELSE
    LET trade == positions[sig.symbol]
        total_crypto_volume ==
            RSum([i \in 1..Len(trade.entries) |-> trade.entries[i].volume])
        closed == calculate_pnl(
            trade_add_exit(trade, sig.timestamp, sig.signal_type,
                           total_crypto_volume, sig.price, sig.order_type))
    IN  /\ positions' = [positions EXCEPT ![sig.symbol] = None]
        /\ capital' = RAdd(capital, closed.net_profit_loss)
        /\ completed_trades' = Append(completed_trades, closed)
        /\ UNCHANGED <<raised, opened>>

\* faulty variant: a BUY opens a position without asking has_position, a
\* SELL closes one without asking
process_signal_without_check(sig) ==
    IF sig.signal_type = BUY
    THEN open_long_position(sig)
    ELSE close_position(sig)

\* BacktestEngine._process_signal
process_signal(sig) ==
    IF sig.signal_type = BUY
    THEN IF ~has_position(sig.symbol)
         THEN open_long_position(sig)
         ELSE add_entry_to_position(sig)
    ELSE IF has_position(sig.symbol)
         THEN close_position(sig)
         ELSE UNCHANGED <<positions, opened, capital, completed_trades, raised>>

\* legacy BacktestEngine.run, one iteration of the loop on a BUY signal
LegacyBuy ==
    /\ engine = "legacy"
    /\ raised = "none"
    /\ idx < MaxLegacySignals
    /\ \E sym \in Symbols, ex \in Exchanges, amt \in Amounts,
          price \in Prices, c \in SignalCosts :
          LET sig == StrategySignal(idx + 1, BUY, sym, ex, amt, price, c[1], c[2])
          IN  /\ signal' = sig
              /\ idx' = idx + 1
              /\ process_signal(sig)
    /\ UNCHANGED <<optimizer, strategy>>
    /\ UNCHANGED <<engine, costVars, initial_capital, current_position,
                   capital_before_trade, returned>>

\* legacy BacktestEngine.run, one iteration of the loop on a SELL signal
\* (a SELL reads the symbol, timestamp, price and order type of its signal
\* only: the other fields are held at one value)
LegacySell ==
    /\ engine = "legacy"
    /\ raised = "none"
    /\ idx < MaxLegacySignals
    /\ \E sym \in Symbols, price \in Prices :
          LET sig == StrategySignal(idx + 1, SELL, sym, "Binance",
                                    RInt(100), price, RZero, RZero)
          IN  /\ signal' = sig
              /\ idx' = idx + 1
              /\ process_signal(sig)
    /\ UNCHANGED <<optimizer, strategy>>
    /\ UNCHANGED <<engine, costVars, initial_capital, current_position,
                   capital_before_trade, returned>>

----------------------------------------------------------------------------
(* Specification *)

InitSimpleOn(configs) ==
    /\ engine = "simple"
    /\ \E cap \in InitialCapitals, cfg \in configs : EngineInit(cap, cfg)
    /\ positions = [s \in Symbols |-> None]
    /\ signal = None
    /\ idx = 0
    /\ raised = "none"
    /\ returned = None
    /\ capital_before_trade = None
    /\ opened = [s \in Symbols |-> 0]
    /\ optimizer = None
    /\ strategy = None

InitSimple == InitSimpleOn(MarketConfigs)

\* legacy BacktestEngine.__init__
InitLegacy ==
    /\ engine = "legacy"
    /\ initial_capital \in InitialCapitals
    /\ capital = initial_capital
    /\ positions = [s \in Symbols |-> None]
    /\ completed_trades = <<>>
    /\ tick_size = RZero /\ slippage_fixed = RZero /\ slippage_pct = RZero
    /\ fee_fixed = RZero /\ fee_rate = RZero
    /\ current_position = None
    /\ signal = None
    /\ idx = 0
    /\ raised = "none"
    /\ returned = None
    /\ capital_before_trade = None
    /\ opened = [s \in Symbols |-> 0]
    /\ optimizer = None
    /\ strategy = None

Init == InitSimple \/ InitLegacy

Next == RunBuy \/ RunSell \/ LegacyBuy \/ LegacySell

Spec == Init /\ [][Next]_vars

----------------------------------------------------------------------------
(* The slippage step on its own: _apply_slippage_to_price called on an      *)
(* engine constructed from each market configuration, over reference prices *)
(* on and off the tick grid.                                                *)

\* reference prices are the multiples of 1/16 up to MaxSlipPrice / 16
MaxSlipPrice == 48

SlipPrices == {Rat(k, 16) : k \in 1..MaxSlipPrice} \cup {RInt(4500)}

\* CRYPTO_CONFIG["Binance"]["BTC"] as the dict BacktestRunner passes
BinanceBTC ==
    [regime |-> "pct", tick_size |-> Rat(1, 100),
     exchange_fee |-> Rat(1, 1000), slippage |-> Rat(2, 10000), slippage_ticks |-> 0]

\* FUTURES_CONFIG["CME"]["ES"] as get_futures_config returns it
CME_ES ==
    [regime |-> "fixed", tick_size |-> Rat(1, 4),
     exchange_fee |-> Rat(139, 100), slippage |-> RZero, slippage_ticks |-> 1]

\* percentage regime with no slippage
ZeroSlipPct ==
    [regime |-> "pct", tick_size |-> Rat(1, 4),
     exchange_fee |-> Rat(1, 8), slippage |-> RZero, slippage_ticks |-> 0]

\* fixed regime with slippage_ticks = 0
ZeroSlipFixed ==
    [regime |-> "fixed", tick_size |-> Rat(1, 4),
     exchange_fee |-> Rat(3, 2), slippage |-> RZero, slippage_ticks |-> 0]

SlipConfigs == {PctConfig, FixedConfig, BinanceBTC, CME_ES, ZeroSlipPct, ZeroSlipFixed}

InitSlip ==
    /\ engine = "slippage"
    /\ \E cap \in InitialCapitals, cfg \in SlipConfigs : EngineInit(cap, cfg)
    /\ positions = [s \in Symbols |-> None]
    /\ signal = None
    /\ idx = 0
    /\ raised = "none"
    /\ returned = None
    /\ capital_before_trade = None
    /\ opened = [s \in Symbols |-> 0]
    /\ optimizer = None
    /\ strategy = None

\* one call of BacktestEngine._apply_slippage_to_price(price, is_buy)
ApplySlippage ==
    /\ engine = "slippage"
    /\ \E price \in SlipPrices, is_buy \in BOOLEAN :
          /\ signal' = [price |-> price, is_buy |-> is_buy]
          /\ returned' = apply_slippage_to_price(price, is_buy)
    /\ UNCHANGED <<optimizer, strategy>>
    /\ UNCHANGED <<engine, costVars, initial_capital, capital, current_position,
                   positions, completed_trades, idx, raised,
                   capital_before_trade, opened>>

NextSlip == ApplySlippage

SpecSlip == InitSlip /\ [][NextSlip]_vars

----------------------------------------------------------------------------
(* The legacy engine next to a PositionManager that is called directly,   *)
(* in any state, as a caller other than the engine could.                 *)

MaxManagerCalls == 3

ConfiguredExchanges == {"Binance", "Kucoin"}

\* PositionManager.close_position
manager_close_position(symbol) ==
    IF ~has_position(symbol)
    THEN /\ raised' = "ValueError"
         /\ UNCHANGED <<positions, returned>>
    ELSE /\ returned' = positions[symbol]
         /\ positions' = [positions EXCEPT ![symbol] = None]
         /\ UNCHANGED raised

\* PositionManager.__init__
InitManager ==
    /\ engine = "manager"
    /\ initial_capital \in InitialCapitals
    /\ capital = initial_capital
    /\ positions = [s \in Symbols |-> None]
    /\ completed_trades = <<>>
    /\ tick_size = RZero /\ slippage_fixed = RZero /\ slippage_pct = RZero
    /\ fee_fixed = RZero /\ fee_rate = RZero
    /\ current_position = None
    /\ signal = None
    /\ idx = 0
    /\ raised = "none"
    /\ returned = None
    /\ capital_before_trade = None
    /\ opened = [s \in Symbols |-> 0]
    /\ optimizer = None
    /\ strategy = None

\* a direct call of PositionManager.open_position
DirectOpen ==
    /\ engine = "manager"
    /\ raised = "none"
    /\ idx < MaxManagerCalls
    /\ \E sym \in Symbols, ex \in ConfiguredExchanges :
          /\ signal' = [op |-> "open", symbol |-> sym]
          /\ idx' = idx + 1
          /\ open_position(sym, CryptoTrade(sym, idx + 1, ex, TRUE, TRUE))
    /\ UNCHANGED <<optimizer, strategy>>
    /\ UNCHANGED <<engine, costVars, initial_capital, capital, current_position,
                   completed_trades, capital_before_trade, returned>>

\* a direct call of PositionManager.close_position
DirectClose ==
    /\ engine = "manager"
    /\ raised = "none"
    /\ idx < MaxManagerCalls
    /\ \E sym \in Symbols :
          /\ signal' = [op |-> "close", symbol |-> sym]
          /\ idx' = idx + 1
          /\ manager_close_position(sym)
    /\ UNCHANGED <<optimizer, strategy>>
    /\ UNCHANGED <<engine, costVars, initial_capital, capital, current_position,
                   completed_trades, capital_before_trade, opened>>

InitManaged == InitLegacy \/ InitManager

NextManaged == LegacyBuy \/ LegacySell \/ DirectOpen \/ DirectClose

SpecManaged == InitManaged /\ [][NextManaged]_vars

----------------------------------------------------------------------------
(* The simple engine on the CME ES contract, next to the two small        *)
(* configurations. The flat fee of 1.39 gives capitals in hundredths, so  *)
(* the runs are one signal shorter to stay within 32-bit integers.        *)

FuturesConfigs == MarketConfigs \cup {CME_ES}

InitFutures == InitSimpleOn(FuturesConfigs)

MaxFuturesSignals == 3

FuturesBuy == idx < MaxFuturesSignals /\ RunBuy

FuturesSell == idx < MaxFuturesSignals /\ RunSell

NextFutures == FuturesBuy \/ FuturesSell

SpecFutures == InitFutures /\ [][NextFutures]_vars

----------------------------------------------------------------------------
(* The simple engine on signals whose price may be below one tick.        *)

WidePrices == Prices \cup {Rat(1, 16)}

WideBuy == RunBuyOn(WidePrices)

WideSell == RunSellOn(WidePrices)

NextWide == WideBuy \/ WideSell

SpecWide == InitSimple /\ [][NextWide]_vars

----------------------------------------------------------------------------
(* optimization/optimizer.py: ParameterOptimizer.optimize, one iteration  *)
(* of its loop per step, then get_summary().                              *)

\* combinations of one grid
MaxCombinations == 2

\* values a metric of one backtest takes
MaxScore == 2

\* no engine is running: the engine's variables stay at rest
EngineIdle(name) ==
    /\ engine = name
    /\ tick_size = RZero
    /\ slippage_fixed = RZero
    /\ slippage_pct = RZero
    /\ fee_fixed = RZero
    /\ fee_rate = RZero
    /\ initial_capital = RZero
    /\ capital = RZero
    /\ current_position = None
    /\ positions = [s \in Symbols |-> None]
    /\ completed_trades = <<>>
    /\ signal = None
    /\ idx = 0
    /\ raised = "none"
    /\ returned = None
    /\ capital_before_trade = None
    /\ opened = [s \in Symbols |-> 0]

engineVars == <<engine, costVars, initial_capital, capital, current_position,
                positions, completed_trades, signal, idx, raised, returned,
                capital_before_trade, opened>>

\* optimize(): the metrics it accepts
AcceptedMetrics == {"sharpe_ratio", "roi", "profit_factor", "max_drawdown", "sortino_ratio"}

\* metrics/portfolio_metrics.py: the keys of all_metrics the optimizer reads
AllMetrics ==
    [sharpe_ratio : 1..MaxScore, ROI : 1..MaxScore, profit_factor : 1..MaxScore,
     max_drawdown : 1..MaxScore, sortino_ratio : 1..MaxScore]

\* best_score is -float('inf') or a score
NegInf == [inf |-> TRUE, value |-> 0]
Score(x) == [inf |-> FALSE, value |-> x]

\* score > self.best_score
ScoreGreater(score, best) == best.inf \/ score > best.value

\* one dict of the grid, named by its place in the grid
Combination(k) == [combination |-> k]

\* ParameterOptimizer.__init__, then optimize() up to its loop
OptimizerInit(metric, total) ==
    [target_metric |-> metric, total |-> total, next |-> 1, results |-> <<>>,
     best_params |-> None, best_score |-> NegInf, summary |-> None]

OptimizationResult(params, metrics) == [params |-> params, metrics |-> metrics]

\* the body of the loop for the combination params whose backtest produced
\* all_metrics: the result is appended, then the score is looked up; a key
\* all_metrics does not have raises KeyError into the except clause, which
\* leaves the best untouched
optimize_iteration(o, params, all_metrics) ==
    LET appended == [o EXCEPT !.results = Append(@, OptimizationResult(params, all_metrics)),
                              !.next = @ + 1]
        metric == o.target_metric
    IN  IF metric \notin DOMAIN all_metrics THEN appended
        ELSE IF ScoreGreater(all_metrics[metric], o.best_score)
             THEN [appended EXCEPT !.best_score = Score(all_metrics[metric]),
                                   !.best_params = params]
             ELSE appended

\* get_summary(): one row per result
summary_row(result) ==
    [params |-> result.params,
     sharpe_ratio |-> result.metrics.sharpe_ratio,
     roi |-> result.metrics.ROI,
     max_drawdown |-> result.metrics.max_drawdown,
     profit_factor |-> result.metrics.profit_factor]

\* df.sort_values(column, ascending): the orders of the rows it may return
\* (the order of rows with equal values is not fixed by quicksort)
sort_values(rows, column, ascending) ==
    {order \in [1..Len(rows) -> 1..Len(rows)] :
        /\ \A i, j \in 1..Len(rows) : i # j => order[i] # order[j]
        /\ \A i \in 1..(Len(rows) - 1) :
              IF ascending THEN rows[order[i]][column] <= rows[order[i + 1]][column]
              ELSE rows[order[i]][column] >= rows[order[i + 1]][column]}

\* get_summary(): the rows, sorted by the target metric when it is a column
get_summary(o) ==
    LET rows == [i \in 1..Len(o.results) |-> summary_row(o.results[i])]
        column == o.target_metric
    IN  IF Len(rows) = 0 THEN {rows}
        ELSE IF column \in DOMAIN rows[1]
             THEN {[i \in 1..Len(rows) |-> rows[order[i]]] :
                      order \in sort_values(rows, column, column = "max_drawdown")}
             ELSE {rows}

InitOptimizer ==
    /\ EngineIdle("optimizer")
    /\ strategy = None
    /\ \E metric \in AcceptedMetrics, total \in 1..MaxCombinations :
          optimizer = OptimizerInit(metric, total)

\* one iteration whose backtest succeeds
OptimizeEvaluate ==
    /\ engine = "optimizer"
    /\ optimizer.summary = None
    /\ optimizer.next <= optimizer.total
    /\ \E all_metrics \in AllMetrics :
          optimizer' = optimize_iteration(optimizer, Combination(optimizer.next), all_metrics)
    /\ UNCHANGED <<engineVars, strategy>>

\* one iteration whose strategy or backtest raises: except ... continue
OptimizeFail ==
    /\ engine = "optimizer"
    /\ optimizer.summary = None
    /\ optimizer.next <= optimizer.total
    /\ optimizer' = [optimizer EXCEPT !.next = @ + 1]
    /\ UNCHANGED <<engineVars, strategy>>

\* the loop is over: return self.get_summary()
OptimizeFinish ==
    /\ engine = "optimizer"
    /\ optimizer.summary = None
    /\ optimizer.next > optimizer.total
    /\ \E df \in get_summary(optimizer) :
          optimizer' = [optimizer EXCEPT !.summary = [rows |-> df]]
    /\ UNCHANGED <<engineVars, strategy>>

NextOptimizer == OptimizeEvaluate \/ OptimizeFail \/ OptimizeFinish

SpecOptimizer == InitOptimizer /\ [][NextOptimizer]_vars

----------------------------------------------------------------------------
(* strategies/base_strategy.py, strategies/examples/btc_pugilanime.py     *)
(* generate_simple_signals() runs one iteration of its loop per step.     *)
(* The columns of market_data (prices and the indicators computed from     *)
(* them in __init__) are read bar by bar as inputs; prices and indicator   *)
(* values are whole numbers.                                               *)

\* bars one run of BTCPugilanime.generate_simple_signals reads
MaxBars == 5

\* prices and price levels (EMA, SMA, range) of a bar
BarPrices == 1..3

\* ATR values of a bar
BarATRs == 0..2

\* BaseStrategy.create_simple_signal
create_simple_signal(st, signal_type, timestamp, price, position_size_pct) ==
    [st EXCEPT !.simple_signals =
        Append(@, TradingSignal(timestamp, signal_type, st.symbol, price,
                                position_size_pct))]

\* one row of market_data as BTCPugilanime reads it: Close, High, Low, Volume
\* and EMA and ATR of bar i; Range_High, Range_Low, Volume_MA and
\* Range_Width_ATR of bar i - 1
PugilanimeBars ==
    {b \in [close : BarPrices, high : BarPrices, low : BarPrices,
            ema : BarPrices, atr : BarATRs,
            range_high : BarPrices, range_low : BarPrices,
            volume : 1..2, volume_ma : {1}, range_width_atr : 2..3] :
        /\ b.low <= b.close
        /\ b.close <= b.high
        /\ b.range_low <= b.range_high}

\* BTCPugilanime.__init__ and the locals generate_simple_signals starts with
BTCPugilanime(pct, atr_multiplier, bars) ==
    [kind |-> "BTCPugilanime", symbol |-> "BTC", position_size_pct |-> pct,
     atr_multiplier |-> atr_multiplier, volume_multiplier |-> 1,
     consolidation_threshold |-> 3,
     state |-> "SCANNING", breakout_range_high |-> None,
     breakout_range_low |-> None, seen_above_ema |-> FALSE,
     max_price_since_entry |-> None, trailing_stop |-> None,
     simple_signals |-> <<>>, i |-> 0, bars |-> bars, returned |-> FALSE]

\* state == "SCANNING"
pugilanime_scanning(st, b) ==
    LET is_consolidation == b.range_width_atr < st.consolidation_threshold
        breakout == /\ is_consolidation
                    /\ b.close > b.range_high
                    /\ b.volume > b.volume_ma * st.volume_multiplier
    IN  IF breakout
        THEN [st EXCEPT !.state = "BREAKOUT",
                        !.breakout_range_high = b.range_high,
                        !.breakout_range_low = b.range_low]
        ELSE st

\* state == "BREAKOUT"
pugilanime_breakout(st, b, timestamp) ==
    IF b.close < st.breakout_range_low
    THEN [st EXCEPT !.state = "SCANNING", !.breakout_range_high = None,
                    !.breakout_range_low = None, !.seen_above_ema = FALSE]
    ELSE IF ~st.seen_above_ema
    THEN IF b.low > b.ema THEN [st EXCEPT !.seen_above_ema = TRUE] ELSE st
    ELSE LET pullback_touched_ema == b.low <= b.ema /\ b.ema <= b.close
             ema_above_breakout == b.ema > st.breakout_range_high
         IN  IF pullback_touched_ema /\ ema_above_breakout
             THEN [create_simple_signal(st, BUY, timestamp, RInt(b.close), st.position_size_pct)
                      EXCEPT !.state = "IN_POSITION",
                             !.max_price_since_entry = b.close,
                             !.trailing_stop = b.close - b.atr * st.atr_multiplier]
             ELSE st

\* state == "IN_POSITION"
pugilanime_in_position(st, b, timestamp) ==
    LET raised_stop ==
            IF b.high > st.max_price_since_entry
            THEN [st EXCEPT !.max_price_since_entry = b.high,
                            !.trailing_stop = b.high - b.atr * st.atr_multiplier]
            ELSE st
    IN  IF b.close < raised_stop.trailing_stop
        THEN [create_simple_signal(raised_stop, SELL, timestamp, RInt(b.close), RInt(1))
                 EXCEPT !.state = "WAITING_RESET",
                        !.breakout_range_high = None,
                        !.breakout_range_low = None,
                        !.seen_above_ema = FALSE,
                        !.max_price_since_entry = None,
                        !.trailing_stop = None]
        ELSE raised_stop

\* state == "WAITING_RESET"
pugilanime_waiting_reset(st, b) ==
    IF b.close < b.ema THEN [st EXCEPT !.state = "SCANNING"] ELSE st

\* the body of the loop of BTCPugilanime.generate_simple_signals for bar i
pugilanime_bar(st, b) ==
    LET timestamp == st.i + 1
        after == CASE st.state = "SCANNING" -> pugilanime_scanning(st, b)
                   [] st.state = "BREAKOUT" -> pugilanime_breakout(st, b, timestamp)
                   [] st.state = "IN_POSITION" -> pugilanime_in_position(st, b, timestamp)
                   [] st.state = "WAITING_RESET" -> pugilanime_waiting_reset(st, b)
    IN  [after EXCEPT !.i = timestamp]

ATRMultipliers == {1, 2}

InitPugilanime ==
    /\ EngineIdle("strategy")
    /\ optimizer = None
    /\ \E pct \in Fractions, m \in ATRMultipliers, bars \in 1..MaxBars :
          strategy = BTCPugilanime(pct, m, bars)

\* one iteration of the loop of BTCPugilanime.generate_simple_signals
PugilanimeBar ==
    /\ strategy # None
    /\ strategy.kind = "BTCPugilanime"
    /\ ~strategy.returned
    /\ strategy.i < strategy.bars
    /\ \E b \in PugilanimeBars : strategy' = pugilanime_bar(strategy, b)
    /\ UNCHANGED <<engineVars, optimizer>>

\* the loop is over: return self.simple_signals
StrategyReturn ==
    /\ engine = "strategy"
    /\ ~strategy.returned
    /\ strategy.i = strategy.bars
    /\ strategy' = [strategy EXCEPT !.returned = TRUE]
    /\ UNCHANGED <<engineVars, optimizer>>

NextPugilanime == PugilanimeBar \/ StrategyReturn

SpecPugilanime == InitPugilanime /\ [][NextPugilanime]_vars

----------------------------------------------------------------------------
(* strategies/examples/btc_pugilanime_v2.py                               *)
(* Each state of the machine reads its own columns of the bar; a bar is   *)
(* drawn with the columns the current state does not read held at one     *)
(* value.                                                                 *)

\* bars one run of BTCPugilanimeV2.generate_simple_signals reads
MaxV2Bars == 8

\* values of dca_entries
DCAEntries == {1, 2, 3}

\* values of dca_interval_bars
DCAIntervals == {1, 2}

\* the highest price of a bar
TopPrice == CHOOSE p \in BarPrices : \A q \in BarPrices : q <= p

\* a value that is read, or the one value of a column that is not read
Column(read, values, unread) == IF read THEN values ELSE {unread}

\* one row of market_data as BTCPugilanimeV2 reads it in the given state
V2Bars(state) ==
    LET scanning == state = "SCANNING"
        breakout == state = "BREAKOUT"
        holding == state \in {"DCA_FILLING", "IN_POSITION"}
    IN  {b \in [close : BarPrices,
                high : Column(breakout \/ holding, BarPrices, TopPrice),
                low : Column(breakout, BarPrices, 1),
                ema : Column(breakout \/ state = "WAITING_RESET", BarPrices, 1),
                atr : Column(breakout \/ state = "IN_POSITION", BarATRs, 1),
                sma_trend : Column(scanning, BarPrices, 1),
                range_high : Column(scanning, BarPrices, 1),
                range_low : Column(scanning, BarPrices, 1),
                range_stable : Column(scanning, BOOLEAN, TRUE),
                volume : Column(scanning, 1..2, 1),
                volume_ma : {1}] :
            /\ b.low <= b.close
            /\ b.close <= b.high
            /\ b.range_low <= b.range_high}

\* a level that is not None
Some(x) == [value |-> x]

\* BTCPugilanimeV2.__init__ and the locals generate_simple_signals starts with
BTCPugilanimeV2(pct, dca_entries, dca_interval_bars, breakout_confirm_bars, bars) ==
    [kind |-> "BTCPugilanimeV2", symbol |-> "BTC", position_size_pct |-> pct,
     atr_stop_mult |-> 1, atr_trail_mult |-> 1, trail_activation_r |-> 1,
     volume_multiplier |-> 1, breakout_confirm_bars |-> breakout_confirm_bars,
     breakout_timeout |-> 2,
     dca_entries |-> dca_entries, dca_interval_bars |-> dca_interval_bars,
     dca_size_pct |-> RDiv(pct, RInt(dca_entries)),
     state |-> "SCANNING", breakout_range_high |-> None,
     breakout_range_low |-> None, seen_above_ema |-> FALSE,
     stop_loss |-> None, entry_price_first |-> None, entry_risk |-> None,
     trailing_stop |-> None, trailing_active |-> FALSE,
     highest_high_since_entry |-> None, bars_above_range |-> 0,
     volume_confirmed |-> FALSE, bars_since_breakout |-> 0,
     dca_entries_done |-> 0, bars_since_last_entry |-> 0,
     trades_this_consolidation |-> 0, last_breakout_level |-> None,
     simple_signals |-> <<>>, i |-> 0, close |-> None, bars |-> bars,
     returned |-> FALSE]

Max(a, b) == IF a >= b THEN a ELSE b

\* state == "SCANNING"
v2_scanning(st, b) ==
    IF b.close < b.sma_trend
    THEN [st EXCEPT !.bars_above_range = 0]
    ELSE
    LET counted ==
            IF b.close > b.range_high
            THEN IF st.bars_above_range = 0
                 THEN IF b.range_stable /\ b.volume > b.volume_ma * st.volume_multiplier
                      THEN [st EXCEPT !.bars_above_range = 1, !.volume_confirmed = TRUE]
                      ELSE st
                 ELSE [st EXCEPT !.bars_above_range = @ + 1]
            ELSE [st EXCEPT !.bars_above_range = 0, !.volume_confirmed = FALSE]
        levelled ==
            IF Some(b.range_high) # counted.last_breakout_level
            THEN [counted EXCEPT !.trades_this_consolidation = 0,
                                 !.last_breakout_level = Some(b.range_high)]
            ELSE counted
    IN  IF counted.bars_above_range >= st.breakout_confirm_bars
        THEN IF levelled.trades_this_consolidation >= 2
             THEN [levelled EXCEPT !.bars_above_range = 0]
             ELSE [levelled EXCEPT !.state = "BREAKOUT",
                                   !.breakout_range_high = b.range_high,
                                   !.breakout_range_low = b.range_low,
                                   !.seen_above_ema = FALSE,
                                   !.bars_since_breakout = 0,
                                   !.bars_above_range = 0]
        ELSE counted

\* state == "BREAKOUT"
v2_breakout(st, b, timestamp) ==
    LET waited == [st EXCEPT !.bars_since_breakout = @ + 1]
        stop_loss == b.close - b.atr * st.atr_stop_mult
        entry_risk == b.close - stop_loss
        risked == [waited EXCEPT !.stop_loss = stop_loss, !.entry_risk = entry_risk]
    IN  IF waited.bars_since_breakout > st.breakout_timeout
        THEN [waited EXCEPT !.state = "SCANNING", !.seen_above_ema = FALSE]
        ELSE IF b.close < st.breakout_range_low
        THEN [waited EXCEPT !.state = "SCANNING", !.seen_above_ema = FALSE]
        ELSE IF ~st.seen_above_ema
        THEN IF b.low > b.ema THEN [waited EXCEPT !.seen_above_ema = TRUE] ELSE waited
        ELSE IF (b.low <= b.ema /\ b.ema <= b.close) /\ b.ema > st.breakout_range_high
        THEN IF entry_risk <= 0
             THEN risked
             ELSE [create_simple_signal(risked, BUY, timestamp, RInt(b.close), st.dca_size_pct)
                      EXCEPT !.entry_price_first = b.close,
                             !.dca_entries_done = 1,
                             !.bars_since_last_entry = 0,
                             !.highest_high_since_entry = b.high,
                             !.trailing_stop = None,
                             !.trailing_active = FALSE,
                             !.trades_this_consolidation = @ + 1,
                             !.state = IF st.dca_entries = 1 THEN "IN_POSITION"
                                       ELSE "DCA_FILLING"]
        ELSE waited

\* the SELL of the whole position and the reset that follows it
v2_sell_all(st, b, timestamp) ==
    [create_simple_signal(st, SELL, timestamp, RInt(b.close), RInt(1))
        EXCEPT !.state = "WAITING_RESET",
               !.stop_loss = None,
               !.entry_price_first = None,
               !.entry_risk = None,
               !.trailing_stop = None,
               !.trailing_active = FALSE,
               !.highest_high_since_entry = None,
               !.dca_entries_done = 0,
               !.seen_above_ema = FALSE]

\* faulty variant: after the stop's SELL the bar still takes its DCA entry
v2_dca_filling_no_continue(st, b, timestamp) ==
    LET aged == [st EXCEPT !.bars_since_last_entry = @ + 1,
                           !.highest_high_since_entry = Max(@, b.high)]
        stopped == IF b.close <= st.stop_loss THEN v2_sell_all(aged, b, timestamp)
                   ELSE aged
    IN  IF aged.bars_since_last_entry >= st.dca_interval_bars
        THEN [create_simple_signal(stopped, BUY, timestamp, RInt(b.close), st.dca_size_pct)
                 EXCEPT !.dca_entries_done = @ + 1,
                        !.bars_since_last_entry = 0,
                        !.state = IF stopped.dca_entries_done + 1 >= st.dca_entries
                                  THEN "IN_POSITION" ELSE stopped.state]
        ELSE stopped

\* state == "DCA_FILLING"
v2_dca_filling(st, b, timestamp) ==
    LET aged == [st EXCEPT !.bars_since_last_entry = @ + 1,
                           !.highest_high_since_entry = Max(@, b.high)]
    IN  IF b.close <= st.stop_loss
        THEN v2_sell_all(aged, b, timestamp)
        ELSE IF aged.bars_since_last_entry >= st.dca_interval_bars
        THEN [create_simple_signal(aged, BUY, timestamp, RInt(b.close), st.dca_size_pct)
                 EXCEPT !.dca_entries_done = @ + 1,
                        !.bars_since_last_entry = 0,
                        !.state = IF aged.dca_entries_done + 1 >= st.dca_entries
                                  THEN "IN_POSITION" ELSE "DCA_FILLING"]
        ELSE aged

\* state == "IN_POSITION"
v2_in_position(st, b, timestamp) ==
    LET highest == Max(st.highest_high_since_entry, b.high)
        new_trail == highest - b.atr * st.atr_trail_mult
        profit == b.close - st.entry_price_first
        activated == ~st.trailing_active /\ profit >= st.entry_risk * st.trail_activation_r
        trailing_active == st.trailing_active \/ activated
        trailing_stop == IF activated THEN new_trail
                         ELSE IF st.trailing_active /\ new_trail > st.trailing_stop
                         THEN new_trail
                         ELSE st.trailing_stop
        trailed == [st EXCEPT !.highest_high_since_entry = highest,
                              !.trailing_active = trailing_active,
                              !.trailing_stop = trailing_stop]
        hit_stop == b.close <= st.stop_loss
        hit_trail == trailing_active /\ b.close <= trailing_stop
    IN  IF hit_stop \/ hit_trail THEN v2_sell_all(trailed, b, timestamp) ELSE trailed

\* state == "WAITING_RESET"
v2_waiting_reset(st, b) ==
    IF b.close < b.ema THEN [st EXCEPT !.state = "SCANNING"] ELSE st

\* the body of the loop of BTCPugilanimeV2.generate_simple_signals for bar i
v2_bar(st, b) ==
    LET timestamp == st.i + 1
        after == CASE st.state = "SCANNING" -> v2_scanning(st, b)
                   [] st.state = "BREAKOUT" -> v2_breakout(st, b, timestamp)
                   [] st.state = "DCA_FILLING" -> v2_dca_filling(st, b, timestamp)
                   [] st.state = "IN_POSITION" -> v2_in_position(st, b, timestamp)
                   [] st.state = "WAITING_RESET" -> v2_waiting_reset(st, b)
    IN  [after EXCEPT !.i = timestamp, !.close = b.close]

InitV2 ==
    /\ EngineIdle("strategy")
    /\ optimizer = None
    /\ \E dca_entries \in DCAEntries, dca_interval_bars \in DCAIntervals,
          breakout_confirm_bars \in 1..2 :
          strategy = BTCPugilanimeV2(RInt(1), dca_entries, dca_interval_bars,
                                     breakout_confirm_bars, MaxV2Bars)

\* one iteration of the loop of BTCPugilanimeV2.generate_simple_signals
V2Bar ==
    /\ strategy # None
    /\ strategy.kind = "BTCPugilanimeV2"
    /\ ~strategy.returned
    /\ strategy.i < strategy.bars
    /\ \E b \in V2Bars(strategy.state) : strategy' = v2_bar(strategy, b)
    /\ UNCHANGED <<engineVars, optimizer>>

NextV2 == V2Bar \/ StrategyReturn

SpecV2 == InitV2 /\ [][NextV2]_vars

----------------------------------------------------------------------------
(* strategies/examples/breakout_simple.py, ma_crossover_simple.py,        *)
(* cl_sma_crossover.py, and core/backtest_runner.py: the strategy         *)
(* generates its signal list bar by bar, then BacktestEngine.run consumes *)
(* the list.  The engine's variables hold from the start the values       *)
(* BacktestEngine.__init__ gives them once the list is generated.         *)

\* bars one run of generate_simple_signals reads before the list is fed
MaxFedBars == 4

\* closes and rolling highs and lows of the fed series
FedPrices == {Rat(1, 2), RInt(6)}

\* values of the moving averages
MAValues == {1, 2}

\* BreakoutSimple.__init__ and the locals generate_simple_signals starts with
BreakoutSimple(pct, bars) ==
    [kind |-> "BreakoutSimple", symbol |-> "BTC", position_size_pct |-> pct,
     in_position |-> FALSE, simple_signals |-> <<>>, i |-> 0, bars |-> bars,
     returned |-> FALSE]

\* one row as BreakoutSimple reads it: Close of bar i, High_Max and Low_Min
\* of bar i - 1
BreakoutBars ==
    {b \in [current_close : FedPrices, previous_high_max : FedPrices,
            previous_low_min : FedPrices] :
        RLe(b.previous_low_min, b.previous_high_max)}

\* faulty variant: the BUY does not look at in_position
breakout_bar_without_flag(st, b) ==
    LET timestamp == st.i + 1
        after ==
            IF RLt(b.previous_high_max, b.current_close)
            THEN [create_simple_signal(st, BUY, timestamp, b.current_close,
                                       st.position_size_pct)
                     EXCEPT !.in_position = TRUE]
            ELSE IF RLt(b.current_close, b.previous_low_min) /\ st.in_position
            THEN [create_simple_signal(st, SELL, timestamp, b.current_close, RInt(1))
                     EXCEPT !.in_position = FALSE]
            ELSE st
    IN  [after EXCEPT !.i = timestamp]

\* the body of the loop of BreakoutSimple.generate_simple_signals
breakout_bar(st, b) ==
    LET timestamp == st.i + 1
        after ==
            IF RLt(b.previous_high_max, b.current_close) /\ ~st.in_position
            THEN [create_simple_signal(st, BUY, timestamp, b.current_close,
                                       st.position_size_pct)
                     EXCEPT !.in_position = TRUE]
            ELSE IF RLt(b.current_close, b.previous_low_min) /\ st.in_position
            THEN [create_simple_signal(st, SELL, timestamp, b.current_close, RInt(1))
                     EXCEPT !.in_position = FALSE]
            ELSE st
    IN  [after EXCEPT !.i = timestamp]

\* MACrossoverSimple.__init__ and the locals generate_simple_signals starts
\* with; ma_fast and ma_slow are the averages of the bar before bar i
MACrossoverSimple(pct, ma_fast, ma_slow, bars) ==
    [kind |-> "MACrossoverSimple", symbol |-> "BTC", position_size_pct |-> pct,
     in_position |-> FALSE, ma_fast |-> ma_fast, ma_slow |-> ma_slow,
     simple_signals |-> <<>>, i |-> 0, bars |-> bars, returned |-> FALSE]

\* CLSmaCrossover.__init__ and the locals generate_simple_signals starts with
CLSmaCrossover(pct, sma_fast, sma_slow, bars) ==
    [kind |-> "CLSmaCrossover", symbol |-> "BTC", position_size_pct |-> pct,
     in_position |-> FALSE, ma_fast |-> sma_fast, ma_slow |-> sma_slow,
     simple_signals |-> <<>>, i |-> 0, bars |-> bars, returned |-> FALSE]

\* one row as the crossover strategies read it: Close and the two averages
\* of bar i
CrossoverBars == [close : FedPrices, ma_fast : MAValues, ma_slow : MAValues]

\* the body of the loop of MACrossoverSimple.generate_simple_signals
ma_crossover_bar(st, b) ==
    LET timestamp == st.i + 1
        after ==
            IF st.ma_fast <= st.ma_slow /\ b.ma_fast > b.ma_slow /\ ~st.in_position
            THEN [create_simple_signal(st, BUY, timestamp, b.close, st.position_size_pct)
                     EXCEPT !.in_position = TRUE]
            ELSE IF st.ma_fast >= st.ma_slow /\ b.ma_fast < b.ma_slow /\ st.in_position
            THEN [create_simple_signal(st, SELL, timestamp, b.close, RInt(1))
                     EXCEPT !.in_position = FALSE]
            ELSE st
    IN  [after EXCEPT !.i = timestamp, !.ma_fast = b.ma_fast, !.ma_slow = b.ma_slow]

\* the body of the loop of CLSmaCrossover.generate_simple_signals
cl_sma_crossover_bar(st, b) ==
    LET timestamp == st.i + 1
        fast_prev == st.ma_fast
        slow_prev == st.ma_slow
        after ==
            IF fast_prev <= slow_prev /\ b.ma_fast > b.ma_slow /\ ~st.in_position
            THEN [create_simple_signal(st, BUY, timestamp, b.close, st.position_size_pct)
                     EXCEPT !.in_position = TRUE]
            ELSE IF fast_prev >= slow_prev /\ b.ma_fast < b.ma_slow /\ st.in_position
            THEN [create_simple_signal(st, SELL, timestamp, b.close, RInt(1))
                     EXCEPT !.in_position = FALSE]
            ELSE st
    IN  [after EXCEPT !.i = timestamp, !.ma_fast = b.ma_fast, !.ma_slow = b.ma_slow]

\* the strategies whose lists are fed
FedStrategies ==
    {BreakoutSimple(pct, MaxFedBars) : pct \in Fractions}
    \cup {MACrossoverSimple(pct, f, w, MaxFedBars) :
             pct \in Fractions, f \in MAValues, w \in MAValues}
    \cup {CLSmaCrossover(pct, f, w, MaxFedBars) :
             pct \in Fractions, f \in MAValues, w \in MAValues}
    \cup {BTCPugilanime(pct, m, MaxFedBars) : pct \in Fractions, m \in ATRMultipliers}

InitFed ==
    /\ engine = "simple"
    /\ \E cap \in InitialCapitals, cfg \in MarketConfigs : EngineInit(cap, cfg)
    /\ positions = [s \in Symbols |-> None]
    /\ signal = None
    /\ idx = 0
    /\ raised = "none"
    /\ returned = None
    /\ capital_before_trade = None
    /\ opened = [s \in Symbols |-> 0]
    /\ optimizer = None
    /\ strategy \in FedStrategies

\* one iteration of the loop of BreakoutSimple.generate_simple_signals
BreakoutBar ==
    /\ strategy # None
    /\ strategy.kind = "BreakoutSimple"
    /\ ~strategy.returned
    /\ strategy.i < strategy.bars
    /\ \E b \in BreakoutBars : strategy' = breakout_bar(strategy, b)
    /\ UNCHANGED <<engineVars, optimizer>>

\* one iteration of the loop of MACrossoverSimple.generate_simple_signals
MACrossoverBar ==
    /\ strategy # None
    /\ strategy.kind = "MACrossoverSimple"
    /\ ~strategy.returned
    /\ strategy.i < strategy.bars
    /\ \E b \in CrossoverBars : strategy' = ma_crossover_bar(strategy, b)
    /\ UNCHANGED <<engineVars, optimizer>>

\* one iteration of the loop of CLSmaCrossover.generate_simple_signals
CLSmaCrossoverBar ==
    /\ strategy # None
    /\ strategy.kind = "CLSmaCrossover"
    /\ ~strategy.returned
    /\ strategy.i < strategy.bars
    /\ \E b \in CrossoverBars : strategy' = cl_sma_crossover_bar(strategy, b)
    /\ UNCHANGED <<engineVars, optimizer>>

\* BacktestRunner.run: signals = self.strategy.generate_simple_signals()
FedGenerated ==
    /\ engine = "simple"
    /\ strategy # None
    /\ ~strategy.returned
    /\ strategy.i = strategy.bars
    /\ strategy' = [strategy EXCEPT !.returned = TRUE]
    /\ UNCHANGED <<engineVars, optimizer>>

\* BacktestEngine.run(signals), one iteration of the loop
FedSignal ==
    /\ engine = "simple"
    /\ strategy # None
    /\ strategy.returned
    /\ raised = "none"
    /\ idx < Len(strategy.simple_signals)
    /\ LET sig == strategy.simple_signals[idx + 1]
       IN  /\ signal' = sig
           /\ idx' = idx + 1
           /\ IF sig.signal_type = BUY THEN handle_buy(sig) ELSE handle_sell(sig)
    /\ UNCHANGED <<optimizer, strategy>>
    /\ UNCHANGED <<engine, costVars, initial_capital, positions, returned>>

NextFed ==
    BreakoutBar \/ MACrossoverBar \/ CLSmaCrossoverBar \/ PugilanimeBar
        \/ FedGenerated \/ FedSignal

SpecFed == InitFed /\ [][NextFed]_vars

----------------------------------------------------------------------------
(* Vocabulary of the properties *)

\* a position is open for symbol s
HasOpen(s) ==
    IF engine = "legacy" THEN positions[s] # None
    ELSE current_position # None /\ current_position.symbol = s

\* completed trades recorded for symbol s
Closed(s) ==
    Cardinality({i \in 1..Len(completed_trades) : completed_trades[i].symbol = s})

LastTrade == completed_trades[Len(completed_trades)]

\* the simple engine has just closed a position: the signal processed last is
\* the SELL that appended LastTrade
JustClosed ==
    /\ engine = "simple"
    /\ idx > 0
    /\ signal.signal_type = SELL
    /\ Len(completed_trades) > 0
    /\ LastTrade.exit_time = idx

\* the simple engine has just executed a BUY: the signal processed last is the
\* BUY that appended the last Entry of the open position
JustBought ==
    /\ engine = "simple"
    /\ idx > 0
    /\ signal.signal_type = BUY
    /\ current_position # None
    /\ current_position.entries[Len(current_position.entries)].timestamp = idx

\* the step consumes a signal of the given type in the given engine
Consumes(eng, type) ==
    /\ idx' = idx + 1
    /\ engine = eng
    /\ signal'.signal_type = type

\* the quantity a Position holds: sum over entries of notional / executed price
QuantityHeld(pos) ==
    RSum([i \in 1..Len(pos.entries) |->
            RDiv(pos.entries[i].size_usdt, pos.entries[i].price)])

----------------------------------------------------------------------------
(* Properties *)

\* C1: after each processed signal every symbol has at most one open
\* position: each Position (simple engine) or CryptoTrade (legacy engine)
\* opened for a symbol and not yet turned into a completed trade is the one
\* open position of that symbol, and there is at most one of them.
C1_AtMostOneOpenPosition ==
    \A s \in Symbols :
        LET live == opened[s] - Closed(s)
        IN  /\ live \in {0, 1}
            /\ (live = 1) <=> HasOpen(s)

\* a second BUY has been added to the open position of its symbol
C1_Witness ==
    /\ engine = "simple"
    /\ JustBought
    /\ Len(current_position.entries) >= 2
    /\ signal.symbol = current_position.symbol

\* C2: for every completed trade of the simple engine, net_pnl equals
\* capital_after minus the capital just before the trade's first entry, that
\* is gross_pnl minus all entry fees and the exit fee.
C2_NetPnlIsCapitalDelta ==
    JustClosed =>
        /\ LastTrade.net_pnl = RSub(LastTrade.capital_after, capital_before_trade)
        /\ LastTrade.net_pnl =
              RSub(LastTrade.gross_pnl,
                   RAdd(LastTrade.total_entry_fees, LastTrade.exit_fee))

\* C3: for every completed trade of the simple engine, capital_after =
\* capital_before_trade - total_cost - total_entry_fees + exit_value - exit_fee.
C3_CapitalConservation ==
    JustClosed =>
        LastTrade.capital_after =
            RSub(RAdd(RSub(RSub(capital_before_trade, LastTrade.total_cost),
                           LastTrade.total_entry_fees),
                      LastTrade.exit_value),
                 LastTrade.exit_fee)

\* a trade of two entries has been closed, with fees paid on entry and exit
C3_Witness ==
    /\ JustClosed
    /\ LastTrade.num_entries = 2
    /\ LastTrade.total_entry_fees.n > 0
    /\ LastTrade.exit_fee.n > 0

\* C4: a SELL for a symbol that has no open position changes nothing:
\* capital, every open position (also one of another symbol), the ledger
\* and the error state stay as they were.
C4_SellWithoutPositionIsNoOp ==
    [][ (/\ idx' = idx + 1
         /\ signal'.signal_type = SELL
         /\ ~HasOpen(signal'.symbol))
        => /\ capital' = capital
           /\ current_position' = current_position
           /\ positions' = positions
           /\ completed_trades' = completed_trades
           /\ raised' = "none" ]_vars

\* C5: an executed BUY puts its Entry into the Position of its own symbol
\* (a new one when the symbol had none), so every Entry of a Position comes
\* from a BUY of the Position's symbol.
C5_EntryBelongsToItsSymbol ==
    [][ (/\ idx' = idx + 1
         /\ signal'.signal_type = BUY
         /\ raised' = "none"
         /\ current_position' # current_position \/ positions' # positions)
        => IF engine = "legacy"
           THEN /\ positions'[signal'.symbol] # None
                /\ \A s \in Symbols \ {signal'.symbol} : positions'[s] = positions[s]
           ELSE /\ current_position'.symbol = signal'.symbol
                /\ (current_position = None) <=> ~HasOpen(signal'.symbol) ]_vars

\* C6: a BUY whose notional (capital * position_size_pct) is <= 0 is skipped:
\* no Position or Entry is created and capital, the open position and the
\* ledger are unchanged; nothing is raised.
C6_BuyWithoutCapitalIsNoOp ==
    [][ (/\ Consumes("simple", BUY)
         /\ RMul(capital, signal'.position_size_pct).n <= 0)
        => /\ capital' = capital
           /\ current_position' = current_position
           /\ completed_trades' = completed_trades
           /\ raised' = "none" ]_vars

\* a BUY was consumed with no capital left while a position was open
C6_Witness ==
    /\ engine = "simple"
    /\ idx > 1
    /\ signal.signal_type = BUY
    /\ capital.n <= 0
    /\ current_position # None
    /\ ~JustBought

\* C7: every executed BUY commits capital-at-that-moment * position_size_pct
\* and takes exactly notional + entry fee from capital; the slippage cost of
\* the entry is recorded on the Entry and not taken from capital.
C7_BuyDebitsNotionalPlusFee ==
    [][ (/\ Consumes("simple", BUY)
         /\ current_position' # current_position)
        => LET e == current_position'.entries[Len(current_position'.entries)]
           IN  /\ e.size_usdt = RMul(capital, signal'.position_size_pct)
               /\ e.fee = IF fee_fixed.n > 0 THEN fee_fixed
                          ELSE RMul(e.size_usdt, fee_rate)
               /\ e.slippage_cost =
                     RMul(RAbs(RSub(e.price, signal'.price)),
                          RDiv(e.size_usdt, e.price))
               /\ capital' = RSub(RSub(capital, e.size_usdt), e.fee) ]_vars

\* an averaging BUY was executed on reduced capital, with a slippage cost
C7_Witness ==
    /\ JustBought
    /\ Len(current_position.entries) >= 2
    /\ current_position.entries[Len(current_position.entries)].slippage_cost.n > 0
    /\ capital # initial_capital

\* C8: executed BUYs with no SELL in between extend one open Position by one
\* Entry each, in signal order, and append no CompletedTrade; the SELL that
\* follows appends one CompletedTrade whose num_entries is the number of
\* those entries.
C8_EntriesAccumulateUntilSell ==
    [][ /\ (Consumes("simple", BUY) /\ current_position' # current_position)
           => /\ current_position'.entries =
                    Append(IF current_position = None THEN <<>>
                           ELSE current_position.entries,
                           current_position'.entries[Len(current_position'.entries)])
              /\ current_position'.entries[Len(current_position'.entries)].timestamp
                    = signal'.timestamp
              /\ \A i \in 1..(Len(current_position'.entries) - 1) :
                    current_position'.entries[i].timestamp
                        < current_position'.entries[i + 1].timestamp
              /\ completed_trades' = completed_trades
        /\ (Consumes("simple", SELL) /\ current_position # None)
           => /\ Len(completed_trades') = Len(completed_trades) + 1
              /\ completed_trades'[Len(completed_trades')].num_entries
                    = Len(current_position.entries) ]_vars

\* the DCA scenario: two BUYs, then the SELL records num_entries = 2
C8_Witness ==
    /\ JustClosed
    /\ idx = 3
    /\ LastTrade.num_entries = 2
    /\ Len(completed_trades) = 1

\* C9: a SELL processed while a position is open sells the whole quantity
\* held, whatever position_size_pct the signal carries, appends exactly one
\* completed trade and leaves no open position.
C9_SellClosesWholePosition ==
    [][ /\ (Consumes("simple", SELL) /\ current_position # None)
           => /\ current_position' = None
              /\ completed_trades' =
                    Append(completed_trades, completed_trades'[Len(completed_trades')])
              /\ completed_trades'[Len(completed_trades')].exit_value =
                    RMul(QuantityHeld(current_position),
                         completed_trades'[Len(completed_trades')].exit_price)
        /\ (Consumes("legacy", SELL) /\ positions[signal'.symbol] # None)
           => /\ positions'[signal'.symbol] = None
              /\ completed_trades' =
                    Append(completed_trades, completed_trades'[Len(completed_trades')])
              /\ LET t == completed_trades'[Len(completed_trades')]
                 IN  /\ Len(t.exits) = 1
                     /\ t.exits[1].volume =
                           RSum([i \in 1..Len(t.entries) |-> t.entries[i].volume]) ]_vars

\* after a round trip of two entries was closed by a SELL, a later BUY has
\* opened a new position
C9_Witness ==
    /\ engine = "simple"
    /\ Len(completed_trades) = 1
    /\ current_position # None
    /\ current_position.entry_time > completed_trades[1].exit_time
    /\ completed_trades[1].num_entries = 2

\* C10: in both cost regimes and for every positive reference price, the
\* price the slippage step returns (rounded to tick_size) is >= the reference
\* price on a BUY and <= the reference price on a SELL.
C10_SlippageNeverFavourable ==
    (engine = "slippage" /\ returned # None) =>
        IF signal.is_buy THEN RLe(signal.price, returned)
                         ELSE RLe(returned, signal.price)

----------------------------------------------------------------------------
(* Vocabulary of the properties on the cost regime *)

\* the cost parameters of the engine are those __init__ derives from cfg
BuiltFrom(cfg) ==
    /\ tick_size = cfg.tick_size
    /\ IF cfg.regime = "fixed"
       THEN /\ slippage_fixed = RMul(RInt(cfg.slippage_ticks), cfg.tick_size)
            /\ fee_fixed = cfg.exchange_fee
            /\ slippage_pct = RZero /\ fee_rate = RZero
       ELSE /\ slippage_pct = cfg.slippage
            /\ fee_rate = cfg.exchange_fee
            /\ slippage_fixed = RZero /\ fee_fixed = RZero

\* the price the regime of cfg asks for, before rounding to the tick
SlippedPrice(cfg, price, is_buy) ==
    IF cfg.regime = "fixed"
    THEN LET delta == RMul(RInt(cfg.slippage_ticks), cfg.tick_size)
         IN  IF is_buy THEN RAdd(price, delta) ELSE RSub(price, delta)
    ELSE IF is_buy THEN RMul(price, RAdd(RInt(1), cfg.slippage))
                   ELSE RMul(price, RSub(RInt(1), cfg.slippage))

\* p is a whole number of ticks
OnTick(p) == RDiv(p, tick_size).d = 1

\* p is a multiple of tick_size at most half a tick away from target
NearestTick(p, target) ==
    /\ OnTick(p)
    /\ RLe(RAbs(RSub(p, target)), RDiv(tick_size, RInt(2)))

\* C11: the slippage step returns the multiple of tick_size nearest to
\* reference * (1 +/- slippage_rate) in the percentage regime and to
\* reference +/- slippage_ticks * tick_size in the fixed regime (+ for a BUY,
\* - for a SELL); the notional is no input of it.
C11_SlippageFormula ==
    (engine = "slippage" /\ returned # None) =>
        \A cfg \in SlipConfigs :
            BuiltFrom(cfg) =>
                NearestTick(returned, SlippedPrice(cfg, signal.price, signal.is_buy))

\* tick 0.25, one tick of slippage, flat fee 1.39: a BUY at 4500 executes at 4500.25
C11_Witness ==
    /\ engine = "slippage"
    /\ BuiltFrom(CME_ES)
    /\ returned # None
    /\ signal.is_buy
    /\ signal.price = RInt(4500)
    /\ returned = Rat(18001, 4)

\* C14: with zero slippage the slippage step returns a price that is already
\* a multiple of tick_size unchanged, for BUY and SELL, and applying the
\* step to its own result changes nothing.
C14_TickRoundingIdempotent ==
    (/\ engine = "slippage"
     /\ returned # None
     /\ slippage_fixed = RZero
     /\ slippage_pct = RZero)
    => /\ OnTick(signal.price) => returned = signal.price
       /\ apply_slippage_to_price(returned, signal.is_buy) = returned

\* a SELL at an on-tick price went through the step with zero slippage
C14_Witness ==
    /\ engine = "slippage"
    /\ returned # None
    /\ slippage_fixed = RZero
    /\ slippage_pct = RZero
    /\ ~signal.is_buy
    /\ signal.price = Rat(3, 4)
    /\ returned = Rat(3, 4)

\* the fee the regime of cfg charges on one entry or one exit of that amount
FeeOf(cfg, amount) ==
    IF cfg.regime = "fixed" THEN cfg.exchange_fee
                            ELSE RMul(amount, cfg.exchange_fee)

C13_OneCostRegime ==
    [][ engine = "simple" =>
          /\ \E cfg \in FuturesConfigs : BuiltFrom(cfg) /\ BuiltFrom(cfg)'
          /\ \/ slippage_pct = RZero /\ fee_rate = RZero
             \/ slippage_fixed = RZero /\ fee_fixed = RZero
          /\ costVars' = costVars ]_vars

\* the ES engine has bought and sold and still has the fixed regime it was
\* constructed with
C13_Witness ==
    /\ engine = "simple"
    /\ idx = MaxFuturesSignals
    /\ Len(completed_trades) = 1
    /\ current_position # None
    /\ slippage_fixed = Rat(1, 4)
    /\ fee_fixed = Rat(139, 100)
    /\ slippage_pct = RZero
    /\ fee_rate = RZero

\* C15: for every valid signal (price > 0) and every cost model the executed
\* price of every entry and of every exit is > 0, so that the quantity and
\* the slippage cost never divide by zero.
C15_ExecutedPricePositive ==
    engine = "simple" =>
        /\ raised # "ZeroDivisionError"
        /\ current_position # None =>
              \A i \in 1..Len(current_position.entries) :
                  current_position.entries[i].price.n > 0
        /\ \A j \in 1..Len(completed_trades) :
              completed_trades[j].exit_price.n > 0

\* C18: run() on valid signals never raises, whatever the capital and
\* whether or not a position is open when a SELL arrives.
C18_RunNeverRaises ==
    engine = "simple" => raised = "none"

\* the step is a SELL of the simple engine that closes a position of two entries
ClosesTwoEntries ==
    /\ Consumes("simple", SELL)
    /\ current_position # None
    /\ Len(current_position.entries) = 2
    /\ Len(completed_trades') = Len(completed_trades) + 1

\* C16 as stated: the average entry price of a position of two entries
\* (notional n1 at executed price p1, n2 at p2) is the notional-weighted
\* mean (n1*p1 + n2*p2) / (n1 + n2), and the trade carries that value.
C16_NotionalWeightedMean ==
    [][ ClosesTwoEntries =>
          LET e1 == current_position.entries[1]
              e2 == current_position.entries[2]
              mean == RDiv(RAdd(RMul(e1.size_usdt, e1.price),
                                RMul(e2.size_usdt, e2.price)),
                           RAdd(e1.size_usdt, e2.size_usdt))
          IN  /\ average_entry_price(current_position) = mean
              /\ completed_trades'[Len(completed_trades')].avg_entry_price = mean
      ]_vars

\* C16 amended: the average entry price of a position of two entries is the
\* total notional over the total quantity, (n1 + n2) / (n1/p1 + n2/p2), that
\* is the mean of the executed prices weighted by the quantities q = n/p,
\* (q1*p1 + q2*p2) / (q1 + q2); the trade carries that value.
C16_QuantityWeightedMean ==
    [][ ClosesTwoEntries =>
          LET e1 == current_position.entries[1]
              e2 == current_position.entries[2]
              q1 == RDiv(e1.size_usdt, e1.price)
              q2 == RDiv(e2.size_usdt, e2.price)
              mean == RDiv(RAdd(RMul(q1, e1.price), RMul(q2, e2.price)),
                           RAdd(q1, q2))
          IN  /\ mean = RDiv(RAdd(e1.size_usdt, e2.size_usdt), RAdd(q1, q2))
              /\ average_entry_price(current_position) = mean
              /\ completed_trades'[Len(completed_trades')].avg_entry_price = mean
      ]_vars

\* a position of 50 at 4.5 and 43.75 at 6.75 was closed: its average entry
\* price is 93.75 / (50/4.5 + 43.75/6.75) = 405/76, not the 5.55 of the
\* notional weights
C16_Witness ==
    /\ JustClosed
    /\ LastTrade.num_entries = 2
    /\ LastTrade.total_cost = Rat(375, 4)
    /\ LastTrade.avg_entry_price = Rat(405, 76)

\* C17: when the (exchange, symbol) pair of the backtest has no cost-model
\* entry the lookup raises, no default cost model is used, and the backtest
\* is aborted before the engine has processed any signal: nothing was
\* opened, nothing closed, the capital is the initial one.
C17_MissingConfigAbortsBeforeAnySignal ==
    raised = "ValueError" =>
        /\ ~has_crypto_config(signal.exchange, signal.symbol)
        /\ \A s \in Symbols : positions[s] = None /\ opened[s] = 0
        /\ completed_trades = <<>>
        /\ capital = initial_capital

\* C19: an executed BUY with position_size_pct = 1.0 leaves a capital <= 0
\* (the whole capital and the fee are taken), and from then on every BUY
\* before the next SELL, for the same or another symbol, is skipped: no
\* position, no entry, capital unchanged.
C19_FullBuyExhaustsCapital ==
    [][ Consumes("simple", BUY) =>
          /\ (/\ signal'.position_size_pct = RInt(1)
              /\ current_position' # current_position)
             => /\ capital'.n <= 0
                /\ LET es == current_position'.entries
                   IN  /\ es[Len(es)].size_usdt = capital
                       /\ capital' = RNeg(es[Len(es)].fee)
          /\ (current_position # None /\ capital.n <= 0)
             => /\ capital' = capital
                /\ current_position' = current_position
                /\ completed_trades' = completed_trades
                /\ raised' = "none" ]_vars

\* the first BUY took the whole capital; a later BUY for the other symbol
\* was skipped
C19_Witness ==
    /\ engine = "simple"
    /\ idx >= 2
    /\ signal.signal_type = BUY
    /\ current_position # None
    /\ signal.symbol # current_position.symbol
    /\ Len(current_position.entries) = 1
    /\ current_position.entries[1].timestamp = 1
    /\ current_position.entries[1].size_usdt = initial_capital
    /\ capital = RNeg(current_position.entries[1].fee)
    /\ capital.n < 0
    /\ completed_trades = <<>>

\* the signal about to be processed meets an open position it will close
MeetsOpenPosition ==
    IF engine = "simple"
    THEN current_position # None
    ELSE engine = "legacy" /\ positions[signal'.symbol] # None

\* C20: the ledger of completed trades is append-only: processing a signal
\* leaves the records already there unchanged and in order and adds at most
\* one record, at the end, exactly when the signal is a SELL that closes an
\* open position; so the length of the ledger is the number of those SELLs.
C20_LedgerAppendOnly ==
    [][ idx' = idx + 1 =>
          LET n == Len(completed_trades)
          IN  /\ Len(completed_trades') \in {n, n + 1}
              /\ SubSeq(completed_trades', 1, n) = completed_trades
              /\ Len(completed_trades') = n + 1
                 <=> (signal'.signal_type = SELL /\ MeetsOpenPosition) ]_vars

\* two positions were closed one after the other: the ledger has the two
\* records in the order of the SELLs
C20_Witness ==
    /\ engine = "simple"
    /\ Len(completed_trades) = 2
    /\ completed_trades[1].exit_time < completed_trades[2].entry_time
    /\ completed_trades[2].exit_time = idx
    /\ current_position = None

\* C21: an open Position always holds at least one Entry, its entries are in
\* the order their BUY signals were processed, and its entry_time is the
\* timestamp of its first Entry.
C21_OpenPositionHasOrderedEntries ==
    (engine = "simple" /\ current_position # None) =>
        LET es == current_position.entries
        IN  /\ Len(es) >= 1
            /\ \A i \in 1..Len(es), j \in 1..Len(es) :
                  i < j => es[i].timestamp < es[j].timestamp
            /\ es[Len(es)].timestamp <= idx
            /\ current_position.entry_time = es[1].timestamp

\* after a first round trip a position opened by the third signal got a
\* second entry from the fourth
C21_Witness ==
    /\ engine = "simple"
    /\ Len(completed_trades) = 1
    /\ current_position # None
    /\ Len(current_position.entries) = 2
    /\ current_position.entry_time = 3
    /\ current_position.entries[1].timestamp = 3
    /\ current_position.entries[2].timestamp = 4

\* the fee and the slippage cost a CryptoTrade adds for a fill of that value
FillFee(trade, usdt_value) ==
    IF trade.apply_fees THEN RMul(usdt_value, trade.exchange_fee) ELSE RZero

FillSlippage(trade, usdt_value) ==
    IF trade.apply_slippage THEN RMul(usdt_value, trade.slippage) ELSE RZero

ExitTime(t) ==
    IF engine = "simple" THEN t.exit_time ELSE t.exits[Len(t.exits)].timestamp

\* C23: the signals having strictly increasing timestamps, every completed
\* trade was closed strictly later than it was opened, and the ledger is in
\* increasing order of exit time.
C23_TradesInTimeOrder ==
    engine \in {"simple", "legacy"} =>
        /\ \A j \in 1..Len(completed_trades) :
              completed_trades[j].entry_time < ExitTime(completed_trades[j])
        /\ \A j \in 1..Len(completed_trades), k \in 1..Len(completed_trades) :
              j < k => ExitTime(completed_trades[j]) < ExitTime(completed_trades[k])

\* two round trips: opened at 1 and closed at 2, opened at 3 and closed at 4
C23_Witness ==
    /\ engine = "simple"
    /\ Len(completed_trades) = 2
    /\ completed_trades[1].entry_time = 1
    /\ completed_trades[1].exit_time = 2
    /\ completed_trades[2].entry_time = 3
    /\ completed_trades[2].exit_time = 4

\* C24: run() of the legacy engine never makes the PositionManager raise:
\* the only ValueError a run reaches is the configuration lookup of a BUY
\* for a symbol without position; called directly, open_position on a
\* symbol that has a position and close_position on one that has none
\* raise ValueError and leave the positions as they were.
C24_ManagerErrorsUnreachable ==
    [][ /\ (engine = "legacy" /\ raised' = "ValueError")
           => /\ signal'.signal_type = BUY
              /\ ~has_position(signal'.symbol)
              /\ ~has_crypto_config(signal'.exchange, signal'.symbol)
        /\ (engine = "manager" /\ idx' = idx + 1)
           => LET misuse ==
                      \/ signal'.op = "open" /\ has_position(signal'.symbol)
                      \/ signal'.op = "close" /\ ~has_position(signal'.symbol)
              IN  /\ misuse => raised' = "ValueError" /\ positions' = positions
                  /\ ~misuse => raised' = "none" /\ positions' # positions
      ]_vars

\* a direct open_position for a symbol that already had a position raised
C24_Witness ==
    /\ engine = "manager"
    /\ raised = "ValueError"
    /\ signal.op = "open"
    /\ positions[signal.symbol] # None
    /\ positions[signal.symbol].entry_time < idx

\* C25: a position still open when the signals end gives no completed
\* trade: the ledger holds closed round trips only, one for every position
\* opened but the open one, all closed before the open one was opened, and
\* the notional and the entry fees of the open position stay debited.
C25_OpenPositionNotReported ==
    (engine = "simple" /\ current_position # None) =>
        /\ Len(completed_trades) + 1 = opened["BTC"] + opened["ETH"]
        /\ \A j \in 1..Len(completed_trades) :
              completed_trades[j].exit_time < current_position.entry_time
        /\ capital =
              RSub(RSub(capital_before_trade, total_cost(current_position)),
                   total_fees_on_entries(current_position))

\* the run ends with one round trip closed and a second position open that
\* still holds part of the capital
C25_Witness ==
    /\ engine = "simple"
    /\ idx = MaxSignals
    /\ raised = "none"
    /\ Len(completed_trades) = 1
    /\ current_position # None
    /\ current_position.entry_time = 3
    /\ Len(current_position.entries) = 1
    /\ RLt(capital, capital_before_trade)

\* C30: whenever no position is open the capital is the initial capital plus
\* the sum over the completed trades of gross_pnl - total_fees; the
\* slippage costs the records carry are no part of it.
C30_FlatCapitalIsSumOfTrades ==
    (engine = "simple" /\ current_position = None) =>
        capital =
            RAdd(initial_capital,
                 RSum([j \in 1..Len(completed_trades) |->
                         RSub(completed_trades[j].gross_pnl,
                              completed_trades[j].total_fees)]))

\* two round trips with fees and slippage costs have been closed
C30_Witness ==
    /\ engine = "simple"
    /\ current_position = None
    /\ Len(completed_trades) = 2
    /\ \A j \in 1..2 :
          /\ completed_trades[j].total_fees.n > 0
          /\ completed_trades[j].total_slippage.n > 0
    /\ capital # initial_capital

\* the value of metric m in a result, under the name get_summary() gives it
MetricValue(result, m) == IF m = "roi" THEN result.metrics.ROI ELSE result.metrics[m]

\* the result is best for m among the results: highest value, lowest for
\* max_drawdown
BestFor(o, result) ==
    \A other \in {o.results[i] : i \in 1..Len(o.results)} :
        IF o.target_metric = "max_drawdown"
        THEN MetricValue(result, o.target_metric) <= MetricValue(other, o.target_metric)
        ELSE MetricValue(result, o.target_metric) >= MetricValue(other, o.target_metric)

ResultOf(o, params) ==
    CHOOSE result \in {o.results[i] : i \in 1..Len(o.results)} : result.params = params

\* C26: after optimize(metric=m) has returned with at least one successfully
\* evaluated combination, best_params is a combination that is best for m,
\* best_score is its value of m, and the row get_summary() ranks first is
\* best for m as well (combinations with equal values count as the same rank)
C26_BestParamsIsBestForMetric ==
    (optimizer # None /\ optimizer.summary # None /\ Len(optimizer.results) > 0) =>
        /\ optimizer.best_params # None
        /\ BestFor(optimizer, ResultOf(optimizer, optimizer.best_params))
        /\ optimizer.best_score = Score(
               MetricValue(ResultOf(optimizer, optimizer.best_params), optimizer.target_metric))
        /\ \E i \in 1..Len(optimizer.results) :
              /\ optimizer.results[i].params = optimizer.summary.rows[1].params
              /\ BestFor(optimizer, optimizer.results[i])

\* the same statement restricted to the metrics ranked by highest value under
\* the key the backtest reports them with
C26_HoldsForSharpeAndProfitFactor ==
    (optimizer # None /\ optimizer.target_metric \in {"sharpe_ratio", "profit_factor"}) =>
        C26_BestParamsIsBestForMetric

\* the strategy is BTCPugilanime and its state machine is IN_POSITION
PugilanimeInPosition(st) ==
    st # None /\ st.kind = "BTCPugilanime" /\ st.state = "IN_POSITION"

\* C27: in BTCPugilanime, while the state machine stays IN_POSITION from one
\* bar to the next, the trailing stop after the bar is not below the trailing
\* stop before it
C27_TrailingStopNeverDecreases ==
    [][(PugilanimeInPosition(strategy) /\ PugilanimeInPosition(strategy'))
          => strategy'.trailing_stop >= strategy.trailing_stop]_vars

\* the part of it that does hold: the highest price since entry never decreases
C27_MaxPriceNeverDecreases ==
    [][(PugilanimeInPosition(strategy) /\ PugilanimeInPosition(strategy'))
          => strategy'.max_price_since_entry >= strategy.max_price_since_entry]_vars

\* the signals alternate in round trips of 1 to max_buys BUYs followed by at
\* most one SELL: the list starts with a BUY, every SELL follows a BUY, and
\* no more than max_buys BUYs come in a row
RoundTrips(signals, max_buys) ==
    /\ Len(signals) > 0 => signals[1].signal_type = BUY
    /\ \A k \in 2..Len(signals) :
          signals[k].signal_type = SELL => signals[k - 1].signal_type = BUY
    /\ \A k \in 1..(Len(signals) - max_buys) :
          \E j \in k..(k + max_buys) : signals[j].signal_type = SELL

\* consecutive BUYs of one round trip are exactly interval bars apart
BuysSpaced(signals, interval) ==
    \A k \in 2..Len(signals) :
        (signals[k].signal_type = BUY /\ signals[k - 1].signal_type = BUY)
            => signals[k].timestamp - signals[k - 1].timestamp = interval

\* the bar just read hit the stop while the machine was DCA_FILLING
StopHitWhileFilling ==
    /\ strategy.state = "DCA_FILLING"
    /\ strategy'.i = strategy.i + 1
    /\ strategy'.close <= strategy.stop_loss

\* C28: in BTCPugilanimeV2 every round trip emits between 1 and dca_entries
\* BUY signals followed by at most one SELL, consecutive BUYs of one round
\* trip are exactly dca_interval_bars bars apart, and a bar that hits the stop
\* while DCA_FILLING emits the SELL of the whole position, emits no further
\* DCA entry (dca_entries_done back to 0) and moves to WAITING_RESET
C28_DcaRoundTrips ==
    [][(strategy # None /\ strategy.kind = "BTCPugilanimeV2") =>
          /\ RoundTrips(strategy'.simple_signals, strategy.dca_entries)
          /\ BuysSpaced(strategy'.simple_signals, strategy.dca_interval_bars)
          /\ StopHitWhileFilling =>
                /\ strategy'.simple_signals =
                      Append(strategy.simple_signals,
                             TradingSignal(strategy'.i, SELL, strategy.symbol,
                                           RInt(strategy'.close), RInt(1)))
                /\ strategy'.dca_entries_done = 0
                /\ strategy'.state = "WAITING_RESET"]_vars

\* a round trip of three DCA entries two bars apart was cut short by the stop
\* after its second BUY
C28_Witness ==
    /\ strategy # None
    /\ strategy.kind = "BTCPugilanimeV2"
    /\ strategy.dca_entries = 3
    /\ strategy.dca_interval_bars = 2
    /\ strategy.state = "WAITING_RESET"
    /\ Len(strategy.simple_signals) = 3
    /\ strategy.simple_signals[2].signal_type = BUY
    /\ strategy.simple_signals[3].signal_type = SELL
    /\ strategy.simple_signals[3].timestamp = strategy.i

\* a round trip filled all three DCA entries and was then sold
C28_FullRoundTrip ==
    /\ strategy # None
    /\ strategy.kind = "BTCPugilanimeV2"
    /\ strategy.dca_entries = 3
    /\ Len(strategy.simple_signals) = 4
    /\ strategy.simple_signals[3].signal_type = BUY
    /\ strategy.simple_signals[4].signal_type = SELL

\* one of the four single-entry strategies is generating or has been fed
FedStrategy ==
    /\ strategy # None
    /\ strategy.kind \in {"BreakoutSimple", "MACrossoverSimple", "CLSmaCrossover",
                          "BTCPugilanime"}

\* the step feeds the engine a SELL while no position is open
SellWithoutPosition ==
    /\ engine = "simple"
    /\ idx' = idx + 1
    /\ signal'.signal_type = SELL
    /\ current_position = None

\* the signal fed before this one was a BUY that _handle_buy skipped for lack
\* of capital: the capital, unchanged since, gives it no notional
PreviousBuySkipped ==
    /\ idx >= 1
    /\ signal.signal_type = BUY
    /\ no_capital(entry_size_usdt_of(signal))

AllSingleEntry ==
    \A k \in 1..Len(completed_trades) : completed_trades[k].num_entries = 1

\* C29 as stated: the signal lists of the four strategies strictly alternate
\* BUY, SELL, BUY, ... starting with a BUY; fed to the engine no SELL arrives
\* without an open position and every CompletedTrade has num_entries = 1
C29_NeverSellWithoutPosition ==
    [][FedStrategy =>
          /\ RoundTrips(strategy'.simple_signals, 1)
          /\ AllSingleEntry'
          /\ ~SellWithoutPosition]_vars

\* C29: the signal lists of the four strategies strictly alternate BUY, SELL,
\* BUY, ... starting with a BUY; fed to the engine every CompletedTrade has
\* num_entries = 1, and a SELL arrives without an open position only when the
\* BUY before it was skipped because capital * position_size_pct <= 0
C29_SellWithoutPositionOnlyAfterSkippedBuy ==
    [][FedStrategy =>
          /\ RoundTrips(strategy'.simple_signals, 1)
          /\ AllSingleEntry'
          /\ SellWithoutPosition => PreviousBuySkipped]_vars

\* a list BUY, SELL, BUY, SELL has been fed: the first round trip was
\* recorded with one entry, the second BUY was skipped and the second SELL
\* found no position
C29_Witness ==
    /\ FedStrategy
    /\ engine = "simple"
    /\ strategy.returned
    /\ idx = 4
    /\ signal.signal_type = SELL
    /\ Len(completed_trades) = 1
    /\ completed_trades[1].num_entries = 1
    /\ current_position = None
    /\ capital.n <= 0

====
